---- MODULE Spec2Model ----
(***************************************************************************)
(* A model of the point-cloud engine of ProjetLidar:                       *)
(*   backend/app/routers/lidar_advanced.py      OctreeNode, LidarProcessor *)
(*   backend/app/routers/simulation_advanced.py ViewshedAnalyzer           *)
(*   backend/app/routers/lidar.py               get_lidar_sample           *)
(*   backend/lidar - Copie.py                   the minimal engine         *)
(*                                                                         *)
(* Coordinates and elevations are integers (metres); a value the code      *)
(* computes as a quotient is kept as an exact fraction <<num, den>>.       *)
(* Each group of operations has its own specification (SpecOctree,         *)
(* SpecTiles, ...); the variables of the other groups stay at their idle   *)
(* value there.                                                            *)
(***************************************************************************)
EXTENDS Integers, Sequences, FiniteSets, TLC

VARIABLES
    octPoints,   \* LidarProcessor.points as seen by build_octree
    octTree,     \* the OctreeNode arena: path from the root |-> node
    octNext,     \* number of points build_octree has inserted so far
    octPc,       \* "start" | "inserting" | "done" | "raised"
    octMaxLevel, \* the max_level argument of build_octree
    tlPoints,    \* the point cloud the tile builders read
    tiles,       \* what LidarProcessor.generate_tiles returned last
    tileFiles,   \* lidar - Copie.py: the files of tiles_<id>/, by (tx, ty)
    visTiles,    \* the last visible_tiles request and its response
    cloud,       \* LidarProcessor: points, classification (or none)
    dtm,         \* the last generate_dtm call and its outcome
    dsm,         \* the last generate_dsm call and its outcome
    dtmFile,     \* lidar - Copie.py generate_dtm: the rows of dtm_<id>.json
    lodN,        \* len(LidarProcessor.points) of the file the LOD calls read
    lodLevels,   \* the last generate_lod_levels call and its list
    octLevel,    \* the last response of GET /files/{id}/octree/{level}
    bDtm,        \* the dtm dict a caller holds and passes to segmentation
    bDsm,        \* the dsm dict a caller holds and passes to segmentation
    bCalls,      \* calculate_building_heights calls: arguments and result
    dem,         \* the raster ViewshedAnalyzer.calculate is given
    vsArgs,      \* its observer_pos, observer_height and target_height
    viewshed,    \* the last ViewshedAnalyzer.calculate call and its result
    lasCount,    \* number of points of the stored LAS file
    sampleCall,  \* the last sampling request and its outcome
    reloadCount, \* number of points of a file load_points reads repeatedly
    loads,       \* the last two load_points calls on it: max_points, outcome
    pubPoints,   \* lidar - Copie.py generate_tiles: the points of the LAS file
    pubPc,       \* "ready" | "writing" | "done" | "failed"
    pubQueue,    \* keys of the tiles dict still to be written, in dict order
    tileDir,     \* the directory tiles_<id>: whether it exists, and its files
    dirBefore,   \* tileDir as it was when the call began
    bgTotal,     \* estimate_streaming_budget: total_points = len(self.points)
    bgFrame,     \* its argument points_per_frame
    bgCurrent,   \* current_points
    bgLevel,     \* level
    bgInfo,      \* lod_levels
    bgPc,        \* "start" | "loop" | "done"
    brArgs,      \* _bresenham_line: its arguments x0, y0, x1, y1
    brX,         \* x
    brY,         \* y
    brErr,       \* err
    brPts,       \* points
    brPc,        \* "start" | "loop" | "done"
    stClock,     \* datetime.now(), in whole seconds
    stFiles,     \* settings.LIDAR_DIR: path -> content
    stRecords,   \* the committed LidarData rows
    stNextId,    \* the next primary key
    stReq,       \* the upload requests in flight
    stCalls,     \* requests received so far
    stResp       \* the last response sent

vars == <<octPoints, octTree, octNext, octPc, octMaxLevel, tlPoints, tiles,
          tileFiles, visTiles, cloud, dtm, dsm, dtmFile, lodN, lodLevels,
          octLevel, bDtm, bDsm, bCalls, dem, vsArgs, viewshed, lasCount,
          sampleCall, reloadCount, loads, pubPoints, pubPc, pubQueue,
          tileDir, dirBefore, bgTotal, bgFrame, bgCurrent, bgLevel, bgInfo,
          bgPc, brArgs, brX, brY, brErr, brPts, brPc, stClock, stFiles,
          stRecords, stNextId, stReq, stCalls, stResp>>

octVars == <<octPoints, octTree, octNext, octPc, octMaxLevel>>

tileVars == <<tlPoints, tiles, tileFiles, visTiles>>

\* what the operations of one group leave alone: the other groups
rasterVars == <<cloud, dtm, dsm, dtmFile>>

lodVars == <<lodN, lodLevels, octLevel>>

bldVars == <<bDtm, bDsm, bCalls>>

vsVars == <<dem, vsArgs, viewshed>>

sampleVars == <<lasCount, sampleCall>>

reloadVars == <<reloadCount, loads>>

pubVars == <<pubPoints, pubPc, pubQueue, tileDir, dirBefore>>

budgetVars == <<bgTotal, bgFrame, bgCurrent, bgLevel, bgInfo, bgPc>>

brVars == <<brArgs, brX, brY, brErr, brPts, brPc>>

stVars == <<stClock, stFiles, stRecords, stNextId, stReq, stCalls, stResp>>

octOthers == <<tileVars, rasterVars, lodVars, bldVars, vsVars, sampleVars,
               reloadVars, pubVars, budgetVars, brVars, stVars>>

tileOthers == <<octVars, rasterVars, lodVars, bldVars, vsVars, sampleVars,
                reloadVars, pubVars, budgetVars, brVars, stVars>>

rasterOthers == <<octVars, tileVars, lodVars, bldVars, vsVars, sampleVars,
                  reloadVars, pubVars, budgetVars, brVars, stVars>>

lodOthers == <<octVars, tileVars, rasterVars, bldVars, vsVars, sampleVars,
               reloadVars, pubVars, budgetVars, brVars, stVars>>

bldOthers == <<octVars, tileVars, rasterVars, lodVars, vsVars, sampleVars,
               reloadVars, pubVars, budgetVars, brVars, stVars>>

vsOthers == <<octVars, tileVars, rasterVars, lodVars, bldVars, sampleVars,
              reloadVars, pubVars, budgetVars, brVars, stVars>>

sampleOthers == <<octVars, tileVars, rasterVars, lodVars, bldVars, vsVars,
                  reloadVars, pubVars, budgetVars, brVars, stVars>>

reloadOthers == <<octVars, tileVars, rasterVars, lodVars, bldVars, vsVars,
                  sampleVars, pubVars, budgetVars, brVars, stVars>>

pubOthers == <<octVars, tileVars, rasterVars, lodVars, bldVars, vsVars,
               sampleVars, reloadVars, budgetVars, brVars, stVars>>

budgetOthers == <<octVars, tileVars, rasterVars, lodVars, bldVars, vsVars,
                  sampleVars, reloadVars, pubVars, brVars, stVars>>

brOthers == <<octVars, tileVars, rasterVars, lodVars, bldVars, vsVars,
              sampleVars, reloadVars, pubVars, budgetVars, stVars>>

stOthers == <<octVars, tileVars, rasterVars, lodVars, bldVars, vsVars,
              sampleVars, reloadVars, pubVars, budgetVars, brVars>>

(***************************************************************************)
(* Generic helpers                                                         *)
(***************************************************************************)
RECURSIVE Pow(_, _)
Pow(b, e) == IF e = 0 THEN 1 ELSE b * Pow(b, e - 1)

SetMin(S) == CHOOSE m \in S : \A x \in S : m <= x

SetMax(S) == CHOOSE m \in S : \A x \in S : m >= x

RECURSIVE SeqSum(_)
SeqSum(s) == IF s = <<>> THEN 0 ELSE Head(s) + SeqSum(Tail(s))

\* All sequences over S of length 0..n
SeqsUpTo(S, n) == UNION {[1..k -> S] : k \in 0..n}

Coord(pts, axis) == {pts[i][axis] : i \in 1..Len(pts)}

(***************************************************************************)
(* OctreeNode  (lidar_advanced.py:41-118)                                  *)
(***************************************************************************)
\* Number of points a leaf takes before it subdivides (the attribute
\* OctreeNode.max_points_per_node, 50000 in the source, scaled down).
MaxPointsPerNode == 2

\* Deepest level at which insert() can still be entered: the interpreter's
\* recursion limit, scaled down.  A deeper call raises RecursionError.
RecLimit == 3

\* Octree coordinates are held in units of 1/OctScale so that every midpoint
\* (min + max) / 2 down to level RecLimit + 1 is exact.
OctScale == Pow(2, RecLimit + 1)

OctMaxPts == 4

\* values of the max_level argument (10 by default, scaled down)
OctMaxLevels == {1, 2}

OctPool == {<<0, 0, 0>>, <<1, 0, 0>>, <<0, 1, 2>>, <<4, 4, 4>>}

Mid(lo, hi) == (lo + hi) \div 2

NewNode(bounds, level) ==
    [bounds |-> bounds, level |-> level, points |-> <<>>,
     has_children |-> FALSE, point_count |-> 0]

\* A plausible slip: a point on a midplane goes to the lower side.
get_octant_strict(bounds, point) ==
    LET mid_x == Mid(bounds[1], bounds[2])
        mid_y == Mid(bounds[3], bounds[4])
        mid_z == Mid(bounds[5], bounds[6])
    IN  (IF point[1] > mid_x THEN 1 ELSE 0)
      + (IF point[2] > mid_y THEN 2 ELSE 0)
      + (IF point[3] > mid_z THEN 4 ELSE 0)

get_octant(bounds, point) ==
    LET mid_x == Mid(bounds[1], bounds[2])
        mid_y == Mid(bounds[3], bounds[4])
        mid_z == Mid(bounds[5], bounds[6])
    IN  (IF point[1] >= mid_x THEN 1 ELSE 0)
      + (IF point[2] >= mid_y THEN 2 ELSE 0)
      + (IF point[3] >= mid_z THEN 4 ELSE 0)

\* The bounds of child i of a node with these bounds (the list `octants`).
ChildBounds(bounds, i) ==
    LET mid_x == Mid(bounds[1], bounds[2])
        mid_y == Mid(bounds[3], bounds[4])
        mid_z == Mid(bounds[5], bounds[6])
        xhi == (i % 2) = 1
        yhi == ((i \div 2) % 2) = 1
        zhi == ((i \div 4) % 2) = 1
    IN  << IF xhi THEN mid_x ELSE bounds[1], IF xhi THEN bounds[2] ELSE mid_x,
           IF yhi THEN mid_y ELSE bounds[3], IF yhi THEN bounds[4] ELSE mid_y,
           IF zhi THEN mid_z ELSE bounds[5], IF zhi THEN bounds[6] ELSE mid_z >>

\* self.children[i] = OctreeNode(bounds, self.level + 1) for i in 0..7
subdivide(t, path) ==
    LET kids == {Append(path, i) : i \in 0..7}
    IN  [q \in DOMAIN t \cup kids |->
            IF q \in kids
            THEN NewNode(ChildBounds(t[path].bounds, q[Len(q)]), t[path].level + 1)
            ELSE IF q = path THEN [t[q] EXCEPT !.has_children = TRUE]
            ELSE t[q]]

\* A plausible slip: the counter is kept only where points are stored.
CountVisitLeafOnly(node) ==
    IF node.has_children THEN node ELSE [node EXCEPT !.point_count = @ + 1]

\* self.point_count += 1
CountVisit(node) == [node EXCEPT !.point_count = @ + 1]

\* A plausible slip: the buffer is kept after its points were moved down.
BufferKept(node) == node

\* self.points = []
BufferEmptied(node) == [node EXCEPT !.points = <<>>]

\* A plausible slip: the node splits only once it is over capacity.
OverCapacity(n) == n > MaxPointsPerNode

\* len(self.points) >= self.max_points_per_node
AtCapacity(n) == n >= MaxPointsPerNode

RECURSIVE insert(_, _, _, _)
RECURSIVE redistribute(_, _, _, _)

\* OctreeNode.insert on the node at `path`; the result is the arena after the
\* call and whether the call raised RecursionError on the way.
insert(t, path, point, attributes) ==
    IF Len(path) > RecLimit
    THEN [tree |-> t, raised |-> TRUE]
    ELSE
    LET t1 == [t EXCEPT ![path] = CountVisit(@)]
        full == ~t1[path].has_children
                /\ AtCapacity(Len(t1[path].points))
        r2 == IF full
              THEN LET rd == redistribute(subdivide(t1, path), path,
                                          t1[path].points, 1)
                   IN  IF rd.raised THEN rd
                       ELSE [tree |-> [rd.tree EXCEPT
                                          ![path] = BufferEmptied(@)],
                             raised |-> FALSE]
              ELSE [tree |-> t1, raised |-> FALSE]
    IN  IF r2.raised THEN r2
        ELSE IF r2.tree[path].has_children
        THEN insert(r2.tree,
                    Append(path, get_octant(r2.tree[path].bounds, point)),
                    point, attributes)
        ELSE [tree |-> [r2.tree EXCEPT ![path].points =
                            Append(@, <<point, attributes>>)],
              raised |-> FALSE]

\* for p, attr in self.points: self.children[get_octant(p)].insert(p, attr)
redistribute(t, path, buffered, k) ==
    IF k > Len(buffered) THEN [tree |-> t, raised |-> FALSE]
    ELSE LET p == buffered[k][1]
             attr == buffered[k][2]
             r == insert(t, Append(path, get_octant(t[path].bounds, p)), p, attr)
         IN  IF r.raised THEN r ELSE redistribute(r.tree, path, buffered, k + 1)

(***************************************************************************)
(* LidarProcessor.build_octree  (lidar_advanced.py:136-157)                *)
(***************************************************************************)
Scaled(p) == <<p[1] * OctScale, p[2] * OctScale, p[3] * OctScale>>

\* (min_x, max_x, min_y, max_y, min_z, max_z) of self.points
RootBounds(pts) ==
    << SetMin(Coord(pts, 1)) * OctScale, SetMax(Coord(pts, 1)) * OctScale,
       SetMin(Coord(pts, 2)) * OctScale, SetMax(Coord(pts, 2)) * OctScale,
       SetMin(Coord(pts, 3)) * OctScale, SetMax(Coord(pts, 3)) * OctScale >>

OctIdle ==
    /\ octPoints = <<>>
    /\ octTree = <<>>
    /\ octNext = 0
    /\ octPc = "idle"
    /\ octMaxLevel = 0

OctInit ==
    /\ octPoints \in SeqsUpTo(OctPool, OctMaxPts)
    /\ octTree = <<>>
    /\ octNext = 0
    /\ octPc = "start"
    /\ octMaxLevel \in OctMaxLevels

\* lines 139-143: the bounds and the root; min() of an empty array raises
BuildOctreeRoot ==
    /\ octPc = "start"
    /\ IF octPoints = <<>>
       THEN /\ octPc' = "raised"
            /\ UNCHANGED octTree
       ELSE /\ octPc' = "inserting"
            /\ octTree' = (<<>> :> NewNode(RootBounds(octPoints), 0))
    /\ UNCHANGED <<octPoints, octNext, octMaxLevel, octOthers>>

\* lines 146-155: one turn of the loop, root.insert(tuple(point), attributes)
BuildOctreeInsert ==
    /\ octPc = "inserting"
    /\ octNext < Len(octPoints)
    /\ LET r == insert(octTree, <<>>, Scaled(octPoints[octNext + 1]),
                       [index |-> octNext])
       IN  /\ octTree' = r.tree
           /\ octPc' = IF r.raised THEN "raised" ELSE "inserting"
           /\ octNext' = IF r.raised THEN octNext ELSE octNext + 1
    /\ UNCHANGED <<octPoints, octMaxLevel, octOthers>>

\* line 157: return root
BuildOctreeReturn ==
    /\ octPc = "inserting"
    /\ octNext = Len(octPoints)
    /\ octPc' = "done"
    /\ UNCHANGED <<octPoints, octTree, octNext, octMaxLevel, octOthers>>

OctNext ==
    \/ BuildOctreeRoot
    \/ BuildOctreeInsert
    \/ BuildOctreeReturn

(***************************************************************************)
(* C1: after every completed insert, the point_count of every subdivided   *)
(* node is the sum of the point_count of its eight children, and the       *)
(* root's point_count is the number of points inserted so far.             *)
(***************************************************************************)
ChildCountSum(t, q) ==
    SeqSum([i \in 1..8 |-> t[Append(q, i - 1)].point_count])

C1_PointCountConsistent ==
    octPc \in {"inserting", "done"} =>
        /\ \A q \in DOMAIN octTree :
              octTree[q].has_children =>
                  octTree[q].point_count = ChildCountSum(octTree, q)
        /\ octTree[<<>>].point_count = octNext

\* a finished build whose root and one of whose children have subdivided
C1_Witness ==
    /\ octPc = "done"
    /\ octNext >= 3
    /\ octTree[<<>>].has_children
    /\ \E i \in 0..7 : octTree[<<i>>].has_children

(***************************************************************************)
(* C12: during and after build_octree(max_level) no node has a level above *)
(* max_level: a leaf at level max_level never subdivides, however many     *)
(* points it holds.                                                        *)
(***************************************************************************)
C12_DepthLimit ==
    \A q \in DOMAIN octTree : octTree[q].level <= octMaxLevel

(***************************************************************************)
(* C13: after every completed insert, a node that has children holds an    *)
(* empty direct point buffer, and the points buffered in the leaves are    *)
(* exactly the points inserted so far, each once.                          *)
(***************************************************************************)
\* the `index` attributes of the points buffered anywhere in the tree
BufferedAt(t, q) == {t[q].points[k][2].index : k \in 1..Len(t[q].points)}

C13_PointsOnlyInLeaves ==
    octPc \in {"inserting", "done"} =>
        /\ \A q \in DOMAIN octTree :
              octTree[q].has_children => octTree[q].points = <<>>
        /\ \A i \in 0..(octNext - 1) :
              Cardinality({q \in DOMAIN octTree :
                              i \in BufferedAt(octTree, q)}) = 1
        /\ \A q \in DOMAIN octTree :
              /\ Cardinality(BufferedAt(octTree, q)) = Len(octTree[q].points)
              /\ BufferedAt(octTree, q) \subseteq 0..(octNext - 1)
        /\ \A q \in DOMAIN octTree : \A k \in 1..Len(octTree[q].points) :
              octTree[q].points[k][1]
                  = Scaled(octPoints[octTree[q].points[k][2].index + 1])

\* a finished build in which a leaf's buffer was moved down two levels
C13_Witness ==
    /\ octPc = "done"
    /\ octTree[<<>>].has_children
    /\ \E i \in 0..7 :
          /\ octTree[<<i>>].has_children
          /\ \E j \in 0..7 : Len(octTree[<<i, j>>].points) >= 1

(***************************************************************************)
(* C14: build_octree on a point set of zero points is not an error: it     *)
(* returns a root with point_count = 0 and no children.                    *)
(***************************************************************************)
C14_EmptyBuildReturnsRoot ==
    (octPoints = <<>> /\ octPc # "start") =>
        /\ octPc # "raised"
        /\ DOMAIN octTree = {<<>>}
        /\ octTree[<<>>].point_count = 0
        /\ ~octTree[<<>>].has_children

(***************************************************************************)
(* C22: after every completed insert, the direct buffer of every leaf      *)
(* holds at most max_points_per_node (point, attributes) pairs, for every  *)
(* insertion sequence for which the build completes.                       *)
(***************************************************************************)
C22_LeafWithinCapacity ==
    octPc \in {"inserting", "done"} =>
        \A q \in DOMAIN octTree : Len(octTree[q].points) <= MaxPointsPerNode

\* a finished build with a full leaf below the root
C22_Witness ==
    /\ octPc = "done"
    /\ octTree[<<>>].has_children
    /\ \E q \in DOMAIN octTree :
          q # <<>> /\ Len(octTree[q].points) = MaxPointsPerNode

(***************************************************************************)
(* C23: octant selection and child boxes agree: a point inside a node's    *)
(* bounds goes to the child of index (x >= mid_x ? 1 : 0) |                *)
(* (y >= mid_y ? 2 : 0) | (z >= mid_z ? 4 : 0), ties to the upper side,    *)
(* the box subdivide gave that child contains the point, and so every      *)
(* point stored in a leaf lies within the leaf's bounds.                   *)
(***************************************************************************)
InBox(p, b) ==
    /\ b[1] <= p[1] /\ p[1] <= b[2]
    /\ b[3] <= p[2] /\ p[2] <= b[4]
    /\ b[5] <= p[3] /\ p[3] <= b[6]

\* twice the midpoint is min + max: no division
UpperIndex(p, b) ==
    (IF 2 * p[1] >= b[1] + b[2] THEN 1 ELSE 0)
    + (IF 2 * p[2] >= b[3] + b[4] THEN 2 ELSE 0)
    + (IF 2 * p[3] >= b[5] + b[6] THEN 4 ELSE 0)

\* the eight boxes of subdivide, child i taking the upper half of x, y, z
\* for bit 1, 2, 4 of i
IsOctantOf(cb, b, i) ==
    /\ cb[1] = (IF i % 2 = 1 THEN (b[1] + b[2]) \div 2 ELSE b[1])
    /\ cb[2] = (IF i % 2 = 1 THEN b[2] ELSE (b[1] + b[2]) \div 2)
    /\ cb[3] = (IF (i \div 2) % 2 = 1 THEN (b[3] + b[4]) \div 2 ELSE b[3])
    /\ cb[4] = (IF (i \div 2) % 2 = 1 THEN b[4] ELSE (b[3] + b[4]) \div 2)
    /\ cb[5] = (IF i \div 4 = 1 THEN (b[5] + b[6]) \div 2 ELSE b[5])
    /\ cb[6] = (IF i \div 4 = 1 THEN b[6] ELSE (b[5] + b[6]) \div 2)

C23_OctantMatchesChildBox ==
    octPc \in {"inserting", "done"} =>
        \A q \in DOMAIN octTree :
            /\ q # <<>> =>
                  IsOctantOf(octTree[q].bounds,
                             octTree[SubSeq(q, 1, Len(q) - 1)].bounds,
                             q[Len(q)])
            /\ \A k \in 1..Len(octTree[q].points) :
                  LET p == octTree[q].points[k][1]
                  IN  /\ InBox(p, octTree[q].bounds)
                      /\ \A n \in 1..Len(q) :
                            q[n] = UpperIndex(p,
                                       octTree[SubSeq(q, 1, n - 1)].bounds)

\* a finished build with a point stored on a midplane of its parent
C23_Witness ==
    /\ octPc = "done"
    /\ \E q \in DOMAIN octTree :
          /\ Len(q) >= 2
          /\ \E k \in 1..Len(octTree[q].points) :
                LET p == octTree[q].points[k][1]
                    b == octTree[SubSeq(q, 1, Len(q) - 1)].bounds
                IN  /\ b[1] < b[2]
                    /\ 2 * p[1] = b[1] + b[2]

(***************************************************************************)
(* C24: insert terminates, at a finite recursion depth, for every sequence *)
(* of points inside the root bounds, sequences with more than              *)
(* max_points_per_node identical points and point sets of zero extent on   *)
(* an axis included: no build ends in a RecursionError.                    *)
(***************************************************************************)
C24_InsertTerminates ==
    octPoints # <<>> => octPc # "raised"

(***************************************************************************)
(* LidarProcessor.generate_tiles  (lidar_advanced.py:159-187)              *)
(***************************************************************************)
TileMaxPts == 3

TilePool ==
    {<<0, 0, 0>>, <<100, 0, 1>>, <<200, 0, 2>>,
     <<0, 200, 3>>, <<150, 250, 4>>, <<399, 400, 5>>}

TileSizes == {100, 200}

\* mask: the indices of the points inside [x, x + tile_size) x [y, y + tile_size)
TileMask(pts, x, y, tile_size) ==
    {i \in 1..Len(pts) :
        /\ pts[i][1] >= x /\ pts[i][1] < x + tile_size
        /\ pts[i][2] >= y /\ pts[i][2] < y + tile_size}

\* self.points[mask]: the selected rows, in their original order
RECURSIVE Rows(_, _, _)
Rows(pts, mask, i) ==
    IF i > Len(pts) THEN <<>>
    ELSE (IF i \in mask THEN <<pts[i]>> ELSE <<>>) \o Rows(pts, mask, i + 1)

\* lines 175-182: the tile appended for one (x, y), if it holds a point
TileAt(pts, x, y, tile_size) ==
    LET mask == TileMask(pts, x, y, tile_size)
    IN  IF Cardinality(mask) > 0
        THEN << [bounds |-> <<x, x + tile_size, y, y + tile_size>>,
                 point_count |-> Cardinality(mask),
                 points |-> Rows(pts, mask, 1),
                 mask |-> mask,
                 center |-> << <<x + x + tile_size, 2>>,
                               <<y + y + tile_size, 2>> >>] >>
        ELSE <<>>

\* lines 168-184: while y < max_y
RECURSIVE TileLoopY(_, _, _, _, _)
TileLoopY(pts, x, y, max_y, tile_size) ==
    IF y < max_y
    THEN TileAt(pts, x, y, tile_size)
         \o TileLoopY(pts, x, y + tile_size, max_y, tile_size)
    ELSE <<>>

\* lines 166-185: while x < max_x
RECURSIVE TileLoopX(_, _, _, _, _, _)
TileLoopX(pts, x, max_x, min_y, max_y, tile_size) ==
    IF x < max_x
    THEN TileLoopY(pts, x, min_y, max_y, tile_size)
         \o TileLoopX(pts, x + tile_size, max_x, min_y, max_y, tile_size)
    ELSE <<>>

\* generate_tiles(tile_size); min() of an empty array raises ValueError
generate_tiles(pts, tile_size) ==
    IF pts = <<>> THEN [raised |-> TRUE, tiles |-> <<>>]
    ELSE [raised |-> FALSE,
          tiles |-> TileLoopX(pts, SetMin(Coord(pts, 1)), SetMax(Coord(pts, 1)),
                              SetMin(Coord(pts, 2)), SetMax(Coord(pts, 2)),
                              tile_size)]

\* `tiles` holds the last call: its argument and what it returned
GenerateTiles ==
    /\ \E tile_size \in TileSizes :
          tiles' = << [tile_size |-> tile_size,
                       result |-> generate_tiles(tlPoints, tile_size)] >>
    /\ UNCHANGED <<tlPoints, tileFiles, visTiles, tileOthers>>

(***************************************************************************)
(* lidar - Copie.py: compute_tile_index, generate_tiles  (lines 63-88)     *)
(***************************************************************************)
TILE_SIZE == 200

\* int(a / b) for a >= 0, b > 0, and in general truncation towards zero
TruncDiv(a, b) ==
    IF (a >= 0) = (b > 0) THEN (IF a >= 0 THEN a ELSE -a) \div (IF b > 0 THEN b ELSE -b)
    ELSE -((IF a >= 0 THEN a ELSE -a) \div (IF b > 0 THEN b ELSE -b))

compute_tile_index(x, y, min_x, min_y) ==
    <<TruncDiv(x - min_x, TILE_SIZE), TruncDiv(y - min_y, TILE_SIZE)>>

\* lines 77-79: tiles.setdefault((tx, ty), []).append(p.tolist())
RECURSIVE CopieBuckets(_, _, _, _, _)
CopieBuckets(pts, i, min_x, min_y, acc) ==
    IF i > Len(pts) THEN acc
    ELSE LET key == compute_tile_index(pts[i][1], pts[i][2], min_x, min_y)
             entry == [index |-> i, point |-> pts[i]]
             acc2 == IF key \in DOMAIN acc
                     THEN [acc EXCEPT ![key] = Append(@, entry)]
                     ELSE [k \in DOMAIN acc \cup {key} |->
                              IF k = key THEN <<entry>> ELSE acc[k]]
         IN  CopieBuckets(pts, i + 1, min_x, min_y, acc2)

\* lines 70-88; the files of an earlier call stay unless overwritten
CopieGenerateTiles ==
    /\ tlPoints # <<>>
    /\ LET new == CopieBuckets(tlPoints, 1, SetMin(Coord(tlPoints, 1)),
                               SetMin(Coord(tlPoints, 2)), <<>>)
       IN  tileFiles' = [k \in DOMAIN tileFiles \cup DOMAIN new |->
                            IF k \in DOMAIN new THEN new[k] ELSE tileFiles[k]]
    /\ UNCHANGED <<tlPoints, tiles, visTiles, tileOthers>>

(***************************************************************************)
(* lidar - Copie.py: visible_tiles  (lines 393-421).  A file <tx>_<ty>.json *)
(* is known by its key (tx, ty); the response lists the files in directory *)
(* order, kept here as the set of their keys.                              *)
(***************************************************************************)
\* query boxes <<minx, miny, maxx, maxy>>
VisBoxes ==
    {<<0, 0, 50, 50>>, <<250, 0, 280, 50>>, <<200, 0, 200, 0>>,
     <<350, 250, 450, 500>>, <<0, 0, 450, 450>>, <<50, 50, 0, 0>>}

\* lines 413-418
Overlaps(tx, ty, minx, miny, maxx, maxy) ==
    LET x0 == tx * TILE_SIZE
        y0 == ty * TILE_SIZE
        x1 == x0 + TILE_SIZE
        y1 == y0 + TILE_SIZE
    IN  ~(x1 < minx \/ x0 > maxx \/ y1 < miny \/ y0 > maxy)

visible_tiles(files, minx, miny, maxx, maxy) ==
    IF DOMAIN files = {}
    THEN [status |-> 404, tiles |-> {}]
    ELSE [status |-> 200,
          tiles |-> {k \in DOMAIN files :
                       Overlaps(k[1], k[2], minx, miny, maxx, maxy)}]

VisibleTiles ==
    /\ \E box \in VisBoxes :
          visTiles' = << [box |-> box,
                          response |-> visible_tiles(tileFiles, box[1], box[2],
                                                     box[3], box[4])] >>
    /\ UNCHANGED <<tlPoints, tiles, tileFiles, tileOthers>>

TileIdle ==
    /\ tlPoints = <<>>
    /\ tiles = <<>>
    /\ tileFiles = <<>>
    /\ visTiles = <<>>

TileInit ==
    /\ tlPoints \in SeqsUpTo(TilePool, TileMaxPts)
    /\ tiles = <<>>
    /\ tileFiles = <<>>
    /\ visTiles = <<>>

TileNext ==
    \/ GenerateTiles
    \/ CopieGenerateTiles
    \/ VisibleTiles

(***************************************************************************)
(* C2: for a non-empty point set and a tile size > 0, tile generation puts *)
(* every input point in exactly one tile, and the tiles' point counts sum  *)
(* to N; for LidarProcessor.generate_tiles and for the tile files of       *)
(* lidar - Copie.py.                                                       *)
(***************************************************************************)
PartitionsIndices(n, masks) ==
    \A i \in 1..n : Cardinality({k \in DOMAIN masks : i \in masks[k]}) = 1

LastTiles == tiles[1].result.tiles

C2_TilesPartitionPoints ==
    /\ (tiles # <<>> /\ tlPoints # <<>>) =>
          /\ ~tiles[1].result.raised
          /\ PartitionsIndices(Len(tlPoints),
                 [k \in DOMAIN LastTiles |-> LastTiles[k].mask])
          /\ SeqSum([k \in DOMAIN LastTiles |-> LastTiles[k].point_count])
                 = Len(tlPoints)
    /\ (DOMAIN tileFiles # {}) =>
          PartitionsIndices(Len(tlPoints),
              [k \in DOMAIN tileFiles |->
                  {tileFiles[k][j].index : j \in 1..Len(tileFiles[k])}])

\* the same statement of the tile files alone, which the code meets
C2_CopieTilesPartitionPoints ==
    (DOMAIN tileFiles # {}) =>
        /\ PartitionsIndices(Len(tlPoints),
               [k \in DOMAIN tileFiles |->
                   {tileFiles[k][j].index : j \in 1..Len(tileFiles[k])}])
        /\ \A k \in DOMAIN tileFiles : \A j \in 1..Len(tileFiles[k]) :
               k = compute_tile_index(tileFiles[k][j].point[1],
                                      tileFiles[k][j].point[2],
                                      SetMin(Coord(tlPoints, 1)),
                                      SetMin(Coord(tlPoints, 2)))

(***************************************************************************)
(* C20: visible_tiles returns exactly the keys of the materialized tiles   *)
(* whose cell [min_x + tx*size, min_x + (tx+1)*size) x                     *)
(* [min_y + ty*size, min_y + (ty+1)*size) meets the query box: a tile is   *)
(* returned whenever one of its points can lie in the query box, and never *)
(* when none can.                                                          *)
(***************************************************************************)
\* some (x, y) lies in the tile's half-open cell and in the closed query box
CellMeetsBox(key, box) ==
    LET x0 == SetMin(Coord(tlPoints, 1)) + key[1] * TILE_SIZE
        y0 == SetMin(Coord(tlPoints, 2)) + key[2] * TILE_SIZE
    IN  /\ box[1] <= box[3] /\ box[2] <= box[4]
        /\ x0 <= box[3] /\ box[1] < x0 + TILE_SIZE
        /\ y0 <= box[4] /\ box[2] < y0 + TILE_SIZE

C20_VisibleTilesExact ==
    (visTiles # <<>> /\ visTiles[1].response.status = 200) =>
        visTiles[1].response.tiles
            = {k \in DOMAIN tileFiles : CellMeetsBox(k, visTiles[1].box)}

(***************************************************************************)
(* Elevation values.  A grid cell is NaN, -inf or a number kept as the     *)
(* exact fraction num / den (den > 0).                                     *)
(***************************************************************************)
NaN == [kind |-> "nan", num |-> 0, den |-> 1]

NegInf == [kind |-> "-inf", num |-> 0, den |-> 1]

Val(n, d) == [kind |-> "val", num |-> n, den |-> d]

IsNaN(v) == v.kind = "nan"

RECURSIVE Gcd(_, _)
Gcd(a, b) == IF b = 0 THEN a ELSE Gcd(b, a % b)

Lcm(a, b) == (a * b) \div Gcd(a, b)

RECURSIVE LcmUpTo(_)
LcmUpTo(n) == IF n <= 1 THEN 1 ELSE Lcm(n, LcmUpTo(n - 1))

\* the sum of f[x] over x in S
RECURSIVE SumOver(_, _)
SumOver(f, S) ==
    IF S = {} THEN 0
    ELSE LET x == CHOOSE y \in S : TRUE IN f[x] + SumOver(f, S \ {x})

Cells(ny, nx) == (0..(ny - 1)) \X (0..(nx - 1))

(***************************************************************************)
(* LidarProcessor: ground extraction  (lidar_advanced.py:201-235)          *)
(***************************************************************************)
RasterMaxPts == 3

RasterPool == {<<0, 0, 1>>, <<1, 0, 3>>, <<4, 0, 2>>, <<0, 1, 5>>}

Resolutions == {1, 2}

\* LAS classification codes met in the clouds: 2 = ground, 6 = building
ClassCodes == {2, 6}

GROUND_CLASS == 2

GROUND_CELL_SIZE == 1

\* cell_points[cell_points[:, 2].argmin()]: the first point of lowest z
Lowest(pts, mask) ==
    LET zmin == SetMin({pts[i][3] : i \in mask})
    IN  pts[SetMin({i \in mask : pts[i][3] = zmin})]

RECURSIVE GroundLoopY(_, _, _, _, _)
GroundLoopY(pts, x, y, max_y, cell_size) ==
    IF y < max_y
    THEN LET mask == TileMask(pts, x, y, cell_size)
         IN  (IF Cardinality(mask) > 0 THEN <<Lowest(pts, mask)>> ELSE <<>>)
             \o GroundLoopY(pts, x, y + cell_size, max_y, cell_size)
    ELSE <<>>

RECURSIVE GroundLoopX(_, _, _, _, _, _)
GroundLoopX(pts, x, max_x, min_y, max_y, cell_size) ==
    IF x < max_x
    THEN GroundLoopY(pts, x, min_y, max_y, cell_size)
         \o GroundLoopX(pts, x + cell_size, max_x, min_y, max_y, cell_size)
    ELSE <<>>

\* _extract_ground_simple(cell_size = 1.0), for a non-empty cloud
extract_ground_simple(pts) ==
    GroundLoopX(pts, SetMin(Coord(pts, 1)), SetMax(Coord(pts, 1)),
                SetMin(Coord(pts, 2)), SetMax(Coord(pts, 2)), GROUND_CELL_SIZE)

\* extract_ground_points, for a non-empty cloud
extract_ground_points(c) ==
    IF ~c.has_classification
    THEN extract_ground_simple(c.points)
    ELSE Rows(c.points,
              {i \in 1..Len(c.points) : c.classification[i] = GROUND_CLASS}, 1)

(***************************************************************************)
(* LidarProcessor._fill_nan_grid  (lidar_advanced.py:296-311)              *)
(***************************************************************************)
FILTER_SIZE == 3

\* the footprint of generic_filter(size=3, mode='constant', cval=nan) at
\* (j, i): the cells of the grid within one step; outside the grid is NaN
Footprint(ny, nx, j, i) ==
    {c \in Cells(ny, nx) :
        /\ c[1] - j \in -(FILTER_SIZE \div 2)..(FILTER_SIZE \div 2)
        /\ c[2] - i \in -(FILTER_SIZE \div 2)..(FILTER_SIZE \div 2)}

\* a / b + c / d for numbers
FracAdd(v, w) ==
    LET d == Lcm(v.den, w.den)
    IN  Val(v.num * (d \div v.den) + w.num * (d \div w.den), d)

RECURSIVE FracSum(_, _)
FracSum(g, S) ==
    IF S = {} THEN Val(0, 1)
    ELSE LET c == CHOOSE y \in S : TRUE IN FracAdd(g[c], FracSum(g, S \ {c}))

\* valid.mean() if len(valid) > 0 else nan, over the cells S of g
MeanOfValid(g, S) ==
    LET valid == {c \in S : ~IsNaN(g[c])}
        total == FracSum(g, valid)
    IN  IF Cardinality(valid) > 0
        THEN Val(total.num, total.den * Cardinality(valid))
        ELSE NaN

\* generic_filter(grid, fill_nan, size=3, mode='constant', cval=np.nan)
generic_filter(g, ny, nx) ==
    [c \in Cells(ny, nx) |-> MeanOfValid(g, Footprint(ny, nx, c[1], c[2]))]

\* np.nanmean(filled)
nanmean(g, ny, nx) == MeanOfValid(g, Cells(ny, nx))

\* A plausible slip: the second pass is left out.
fill_nan_grid_neighbours_only(g, ny, nx) == generic_filter(g, ny, nx)

fill_nan_grid(g, ny, nx) ==
    LET filled == generic_filter(g, ny, nx)
        global_mean == nanmean(filled, ny, nx)
    IN  [c \in Cells(ny, nx) |->
            IF IsNaN(filled[c]) THEN global_mean ELSE filled[c]]

(***************************************************************************)
(* LidarProcessor.generate_dtm / generate_dsm  (lidar_advanced.py:237-294) *)
(***************************************************************************)
\* A plausible slip: the comparison is turned round.
FracGreater(v, w) == w.num * v.den < v.num * w.den

\* v < w, v > w for numbers
FracLess(v, w) == v.num * w.den < w.num * v.den

\* lines 251-256: the DTM pass over `ground`, from point k on
RECURSIVE DtmPass(_, _, _, _, _, _, _, _)
DtmPass(g, ground, k, min_x, min_y, nx, ny, resolution) ==
    IF k > Len(ground) THEN g
    ELSE LET i == TruncDiv(ground[k][1] - min_x, resolution)
             j == TruncDiv(ground[k][2] - min_y, resolution)
             z == Val(ground[k][3], 1)
             g2 == IF 0 <= i /\ i < nx /\ 0 <= j /\ j < ny
                      /\ (IsNaN(g[<<j, i>>]) \/ FracLess(z, g[<<j, i>>]))
                   THEN [g EXCEPT ![<<j, i>>] = z]
                   ELSE g
         IN  DtmPass(g2, ground, k + 1, min_x, min_y, nx, ny, resolution)

\* lines 279-284: the DSM pass over self.points; every number exceeds -inf
RECURSIVE DsmPass(_, _, _, _, _, _, _, _)
DsmPass(g, pts, k, min_x, min_y, nx, ny, resolution) ==
    IF k > Len(pts) THEN g
    ELSE LET i == TruncDiv(pts[k][1] - min_x, resolution)
             j == TruncDiv(pts[k][2] - min_y, resolution)
             z == Val(pts[k][3], 1)
             g2 == IF 0 <= i /\ i < nx /\ 0 <= j /\ j < ny
                      /\ (g[<<j, i>>].kind = "-inf" \/ FracLess(g[<<j, i>>], z))
                   THEN [g EXCEPT ![<<j, i>>] = z]
                   ELSE g
         IN  DsmPass(g2, pts, k + 1, min_x, min_y, nx, ny, resolution)

\* A plausible slip: the cell that holds the maximum is not counted.
GridSizeWithoutLast(lo, hi, resolution) ==
    IF hi = lo THEN 1 ELSE TruncDiv(hi - lo, resolution)

\* int((max_x - min_x) / resolution) + 1
GridSize(lo, hi, resolution) == TruncDiv(hi - lo, resolution) + 1

Raised(resolution) ==
    [raised |-> TRUE, resolution |-> resolution, bounds |-> <<0, 0, 0, 0>>,
     shape |-> <<0, 0>>, raw |-> <<>>, grid |-> <<>>]

\* generate_dtm(resolution); `raw` is the grid before _fill_nan_grid.
\* An empty `ground` raises (ValueError in min(), or IndexError when
\* _extract_ground_simple returned no point).
generate_dtm(c, resolution) ==
    IF c.points = <<>> THEN Raised(resolution)
    ELSE
    LET ground == extract_ground_points(c)
    IN  IF ground = <<>> THEN Raised(resolution)
        ELSE
        LET min_x == SetMin(Coord(ground, 1))
            max_x == SetMax(Coord(ground, 1))
            min_y == SetMin(Coord(ground, 2))
            max_y == SetMax(Coord(ground, 2))
            nx == GridSize(min_x, max_x, resolution)
            ny == GridSize(min_y, max_y, resolution)
            raw == DtmPass([cc \in Cells(ny, nx) |-> NaN], ground, 1,
                           min_x, min_y, nx, ny, resolution)
        IN  [raised |-> FALSE, resolution |-> resolution,
             bounds |-> <<min_x, max_x, min_y, max_y>>,
             shape |-> <<ny, nx>>, raw |-> raw,
             grid |-> fill_nan_grid(raw, ny, nx)]

\* dsm[dsm == -np.inf] = np.nan
InfToNaN(g) == [cc \in DOMAIN g |-> IF g[cc].kind = "-inf" THEN NaN ELSE g[cc]]

\* generate_dsm(resolution)
generate_dsm(c, resolution) ==
    IF c.points = <<>> THEN Raised(resolution)
    ELSE
    LET pts == c.points
        min_x == SetMin(Coord(pts, 1))
        max_x == SetMax(Coord(pts, 1))
        min_y == SetMin(Coord(pts, 2))
        max_y == SetMax(Coord(pts, 2))
        nx == GridSize(min_x, max_x, resolution)
        ny == GridSize(min_y, max_y, resolution)
        raw == InfToNaN(DsmPass([cc \in Cells(ny, nx) |-> NegInf], pts, 1,
                                min_x, min_y, nx, ny, resolution))
    IN  [raised |-> FALSE, resolution |-> resolution,
         bounds |-> <<min_x, max_x, min_y, max_y>>,
         shape |-> <<ny, nx>>, raw |-> raw,
         grid |-> fill_nan_grid(raw, ny, nx)]

GenerateDtm ==
    /\ cloud.loaded
    /\ \E resolution \in Resolutions : dtm' = <<generate_dtm(cloud, resolution)>>
    /\ UNCHANGED <<cloud, dsm, dtmFile, rasterOthers>>

GenerateDsm ==
    /\ cloud.loaded
    /\ \E resolution \in Resolutions : dsm' = <<generate_dsm(cloud, resolution)>>
    /\ UNCHANGED <<cloud, dtm, dtmFile, rasterOthers>>

(***************************************************************************)
(* lidar - Copie.py generate_dtm  (lines 165-188): the lowest z of each     *)
(* GRID_SIZE cell, kept in a dict and written as rows [x, y, z]            *)
(***************************************************************************)
GRID_SIZE == 5

\* lines 173-177: grid[key] = min(grid.get(key, p[2]), p[2]), from point k on
RECURSIVE CopieDtmPass(_, _, _, _, _)
CopieDtmPass(grid, pts, k, min_x, min_y) ==
    IF k > Len(pts) THEN grid
    ELSE LET gx == TruncDiv(pts[k][1] - min_x, GRID_SIZE)
             gy == TruncDiv(pts[k][2] - min_y, GRID_SIZE)
             key == <<gx, gy>>
             old == IF key \in DOMAIN grid THEN grid[key] ELSE pts[k][3]
             z == IF pts[k][3] < old THEN pts[k][3] ELSE old
         IN  CopieDtmPass([c \in DOMAIN grid \cup {key} |->
                              IF c = key THEN z ELSE grid[c]],
                          pts, k + 1, min_x, min_y)

\* lines 179-183: one row [x, y, z] per key
copie_generate_dtm(pts) ==
    LET min_x == SetMin(Coord(pts, 1))
        min_y == SetMin(Coord(pts, 2))
        grid == CopieDtmPass(<<>>, pts, 1, min_x, min_y)
    IN  [key \in DOMAIN grid |->
            <<min_x + key[1] * GRID_SIZE, min_y + key[2] * GRID_SIZE,
              grid[key]>>]

\* the route; pts[:, 0].min() of an empty file raises before anything is
\* written
CopieGenerateDtm ==
    /\ cloud.loaded
    /\ dtmFile' = IF cloud.points = <<>>
                  THEN <<[raised |-> TRUE, out |-> <<>>]>>
                  ELSE <<[raised |-> FALSE,
                          out |-> copie_generate_dtm(cloud.points)]>>
    /\ UNCHANGED <<cloud, dtm, dsm, rasterOthers>>

Clouds ==
    {[loaded |-> TRUE, points |-> pts, has_classification |-> hc,
      classification |-> cl] :
        pts \in SeqsUpTo(RasterPool, RasterMaxPts), hc \in BOOLEAN,
        cl \in SeqsUpTo(ClassCodes, RasterMaxPts)}

RasterIdle ==
    /\ cloud = [loaded |-> FALSE, points |-> <<>>,
                has_classification |-> FALSE, classification |-> <<>>]
    /\ dtm = <<>>
    /\ dsm = <<>>
    /\ dtmFile = <<>>

\* LidarProcessor.__init__: the classification, when there is one, has one
\* code per point
RasterInit ==
    /\ cloud \in {c \in Clouds :
                    IF c.has_classification
                    THEN Len(c.classification) = Len(c.points)
                    ELSE c.classification = <<>>}
    /\ dtm = <<>>
    /\ dsm = <<>>
    /\ dtmFile = <<>>

RasterNext ==
    \/ GenerateDtm
    \/ GenerateDsm
    \/ CopieGenerateDtm

(***************************************************************************)
(* C3: for a non-empty point set and a resolution > 0, the grid returned   *)
(* by generate_dtm / generate_dsm holds no NaN cell: the neighbour-mean    *)
(* pass followed by the global-mean pass fills every gap.                  *)
(***************************************************************************)
NoNaN(r) == \A c \in DOMAIN r.grid : r.grid[c].kind = "val"

C3_NoSentinelAfterFill ==
    /\ (dtm # <<>> /\ ~dtm[1].raised) => NoNaN(dtm[1])
    /\ (dsm # <<>> /\ ~dsm[1].raised) => NoNaN(dsm[1])

\* a returned DTM and a returned DSM each with a gap that the neighbour pass
\* leaves open (every cell within one step is empty too)
NeedsGlobalMean(r) ==
    \E c \in DOMAIN r.raw :
        \A n \in Footprint(r.shape[1], r.shape[2], c[1], c[2]) : IsNaN(r.raw[n])

C3_Witness ==
    /\ dtm # <<>> /\ ~dtm[1].raised /\ NeedsGlobalMean(dtm[1])
    /\ dsm # <<>> /\ ~dsm[1].raised /\ NeedsGlobalMean(dsm[1])

(***************************************************************************)
(* C16: for a non-empty contributing point set and a resolution > 0 the    *)
(* grid has nx = floor((max_x - min_x) / resolution) + 1 columns and       *)
(* ny = floor((max_y - min_y) / resolution) + 1 rows, both >= 1, the       *)
(* reported shape is (ny, nx), and every contributing point's cell index   *)
(* lies inside the grid: no point is dropped.                              *)
(***************************************************************************)
\* the points that contribute to the DTM and to the DSM of the cloud
DtmPoints == extract_ground_points(cloud)

DsmPoints == cloud.points

\* (row, column) of the cell a point falls in, by floor division
CellOf(p, min_x, min_y, resolution) ==
    <<(p[2] - min_y) \div resolution, (p[1] - min_x) \div resolution>>

GridCovers(r, pts) ==
    LET min_x == SetMin(Coord(pts, 1))
        min_y == SetMin(Coord(pts, 2))
        nx == ((SetMax(Coord(pts, 1)) - min_x) \div r.resolution) + 1
        ny == ((SetMax(Coord(pts, 2)) - min_y) \div r.resolution) + 1
    IN  /\ nx >= 1 /\ ny >= 1
        /\ r.shape = <<ny, nx>>
        /\ DOMAIN r.grid = (0..(ny - 1)) \X (0..(nx - 1))
        /\ \A k \in 1..Len(pts) :
              LET cell == CellOf(pts[k], min_x, min_y, r.resolution)
              IN  /\ cell[1] \in 0..(r.shape[1] - 1)
                  /\ cell[2] \in 0..(r.shape[2] - 1)
                  /\ ~IsNaN(r.raw[cell])

C16_GridCoversPoints ==
    /\ (dtm # <<>> /\ ~dtm[1].raised) => GridCovers(dtm[1], DtmPoints)
    /\ (dsm # <<>> /\ ~dsm[1].raised) => GridCovers(dsm[1], DsmPoints)

\* a DTM and a DSM of several columns at resolution 2, each with a point in
\* the last column
C16_Witness ==
    /\ dtm # <<>> /\ ~dtm[1].raised /\ dtm[1].resolution = 2
    /\ dtm[1].shape[2] >= 3 /\ ~IsNaN(dtm[1].raw[<<0, dtm[1].shape[2] - 1>>])
    /\ dsm # <<>> /\ ~dsm[1].raised /\ dsm[1].resolution = 2
    /\ dsm[1].shape[2] >= 3 /\ ~IsNaN(dsm[1].raw[<<0, dsm[1].shape[2] - 1>>])

(***************************************************************************)
(* C17: after the aggregation pass and before gap-filling, a cell that     *)
(* received a contributing point holds the minimum (DTM), the maximum      *)
(* (DSM), of the z of exactly the points that fall in it, whatever the     *)
(* order of the points, and a cell that received none holds the sentinel.  *)
(***************************************************************************)
PointsIn(r, pts, cell) ==
    {k \in 1..Len(pts) :
        CellOf(pts[k], SetMin(Coord(pts, 1)), SetMin(Coord(pts, 2)),
               r.resolution) = cell}

Aggregates(r, pts, isMin) ==
    \A cell \in DOMAIN r.raw :
        LET zs == {pts[k][3] : k \in PointsIn(r, pts, cell)}
        IN  IF zs = {} THEN IsNaN(r.raw[cell])
            ELSE r.raw[cell] = Val(IF isMin THEN SetMin(zs) ELSE SetMax(zs), 1)

\* the rows of dtm_<id>.json: one per occupied GRID_SIZE cell, with the
\* lowest z of the points of that cell
CopieAggregates(out, pts) ==
    LET min_x == SetMin(Coord(pts, 1))
        min_y == SetMin(Coord(pts, 2))
        KeyOf(p) == <<(p[1] - min_x) \div GRID_SIZE, (p[2] - min_y) \div GRID_SIZE>>
    IN  /\ DOMAIN out = {KeyOf(pts[k]) : k \in 1..Len(pts)}
        /\ \A key \in DOMAIN out :
              out[key][3] = SetMin({pts[k][3] : k \in {m \in 1..Len(pts) :
                                                          KeyOf(pts[m]) = key}})

C17_CellHoldsExtremum ==
    /\ (dtm # <<>> /\ ~dtm[1].raised) => Aggregates(dtm[1], DtmPoints, TRUE)
    /\ (dsm # <<>> /\ ~dsm[1].raised) => Aggregates(dsm[1], DsmPoints, FALSE)
    /\ (dtmFile # <<>> /\ ~dtmFile[1].raised) =>
          CopieAggregates(dtmFile[1].out, cloud.points)

\* two points of one cell, the higher one first, and an empty cell beside
C17_Witness ==
    /\ dtmFile # <<>> /\ ~dtmFile[1].raised
    /\ dtm # <<>> /\ ~dtm[1].raised
    /\ dsm # <<>> /\ ~dsm[1].raised
    /\ \E cell \in DOMAIN dsm[1].raw :
          /\ Cardinality(PointsIn(dsm[1], DsmPoints, cell)) >= 2
          /\ \E k, m \in PointsIn(dsm[1], DsmPoints, cell) :
                k < m /\ DsmPoints[k][3] > DsmPoints[m][3]
    /\ \E cell \in DOMAIN dtm[1].raw :
          /\ Cardinality(PointsIn(dtm[1], DtmPoints, cell)) >= 2
          /\ \E k, m \in PointsIn(dtm[1], DtmPoints, cell) :
                k < m /\ DtmPoints[k][3] > DtmPoints[m][3]
    /\ \E cell \in DOMAIN dtm[1].raw : IsNaN(dtm[1].raw[cell])

(***************************************************************************)
(* C18: gap-filling changes only sentinel cells: a cell that is not the    *)
(* sentinel before _fill_nan_grid holds the same value afterwards, and a   *)
(* sentinel cell with a non-sentinel direct neighbour receives the mean of *)
(* its non-sentinel direct neighbours.                                     *)
(***************************************************************************)
FillsOnlyGaps(r) ==
    \A cell \in DOMAIN r.raw :
        LET around == Footprint(r.shape[1], r.shape[2], cell[1], cell[2])
                          \ {cell}
        IN  /\ ~IsNaN(r.raw[cell]) => r.grid[cell] = r.raw[cell]
            /\ (IsNaN(r.raw[cell]) /\ \E n \in around : ~IsNaN(r.raw[n]))
                   => r.grid[cell] = MeanOfValid(r.raw, around)

C18_FillChangesOnlyGaps ==
    /\ (dtm # <<>> /\ ~dtm[1].raised) => FillsOnlyGaps(dtm[1])
    /\ (dsm # <<>> /\ ~dsm[1].raised) => FillsOnlyGaps(dsm[1])

(***************************************************************************)
(* C19: the DTM is the minimum aggregation over the ground-classified      *)
(* points when the cloud has a classification, and over all points (the    *)
(* lowest point of each raster cell) when it has none; generate_dtm        *)
(* returns a grid for every non-empty cloud, one whose classification has  *)
(* no ground point and one of zero extent on an axis included.             *)
(***************************************************************************)
GroundClassified ==
    SelectSeq([k \in 1..Len(cloud.points) |->
                  [p |-> cloud.points[k],
                   ground |-> cloud.classification[k] = GROUND_CLASS]],
              LAMBDA e : e.ground)

DtmSource ==
    IF cloud.has_classification
    THEN [k \in 1..Len(GroundClassified) |-> GroundClassified[k].p]
    ELSE cloud.points

C19_DtmOverGround ==
    (dtm # <<>> /\ cloud.points # <<>>) =>
        /\ ~dtm[1].raised
        /\ DtmSource # <<>>
        /\ GridCovers(dtm[1], DtmSource)
        /\ Aggregates(dtm[1], DtmSource, TRUE)

(***************************************************************************)
(* C26: for one point set and one resolution, generate_dtm and             *)
(* generate_dsm return grids with the same shape and the same origin       *)
(* (min_x, min_y), so that DSM - DTM is defined cell by cell and cell      *)
(* (j, i) of both grids covers the same ground area.                       *)
(***************************************************************************)
\* (min_x, min_y) of the bounds (min_x, max_x, min_y, max_y)
Origin(r) == <<r.bounds[1], r.bounds[3]>>

C26_SameGridFrame ==
    (/\ dtm # <<>> /\ ~dtm[1].raised
     /\ dsm # <<>> /\ ~dsm[1].raised
     /\ dtm[1].resolution = dsm[1].resolution) =>
        /\ dtm[1].shape = dsm[1].shape
        /\ Origin(dtm[1]) = Origin(dsm[1])

(***************************************************************************)
(* Level of detail: generate_lod_levels (lidar_advanced.py:189-199) and    *)
(* get_octree_level (lidar_advanced.py:635-668).                           *)
(* A numpy basic slice is a view of the point array: row j of the view is  *)
(* row start + j * step of self.points, for j in 0 .. len - 1.             *)
(***************************************************************************)
LodMaxN == 18

LodMaxLevel == 2

MAX_STREAM_POINTS == 100000

LOD_FACTOR == 4

\* self.points
AllRows(n) == [start |-> 0, step |-> 1, len |-> n]

\* v[::k] for an integer k >= 1
EveryKth(v, k) ==
    [start |-> v.start, step |-> v.step * k,
     len |-> IF v.len = 0 THEN 0 ELSE ((v.len - 1) \div k) + 1]

\* v[:m] for m >= 0
FirstRows(v, m) ==
    [start |-> v.start, step |-> v.step, len |-> IF v.len > m THEN m ELSE v.len]

RowIndex(v, j) == v.start + j * v.step

\* A plausible slip: the reduction factor of a quadtree level, not 4.
StrideHalving(level) == Pow(2, level)

\* stride = 4 ** level, for level >= 0
Stride(level) == Pow(LOD_FACTOR, level)

\* generate_lod_levels(num_levels): [self.points] + one view per level
generate_lod_levels(n, num_levels) ==
    <<AllRows(n)>> \o
    [k \in 1..(IF num_levels > 1 THEN num_levels - 1 ELSE 0) |->
        EveryKth(AllRows(n), Stride(k))]

\* lines 648-665 of get_octree_level for a stored file; a negative level
\* makes 4 ** level a float and the slice raise TypeError: HTTP 500
get_octree_level(n, level) ==
    IF level < 0
    THEN [status |-> 500, level |-> level, point_count |-> 0,
          points |-> AllRows(0), stride |-> 0]
    ELSE LET stride == Stride(level)
             points == EveryKth(AllRows(n), stride)
             capped == IF points.len > MAX_STREAM_POINTS
                       THEN FirstRows(points, MAX_STREAM_POINTS)
                       ELSE points
         IN  [status |-> 200, level |-> level, point_count |-> capped.len,
              points |-> capped, stride |-> stride]

GenerateLodLevels ==
    /\ lodN >= 0
    /\ \E num_levels \in 0..(LodMaxLevel + 1) :
          lodLevels' = << [num_levels |-> num_levels,
                          result |-> generate_lod_levels(lodN, num_levels)] >>
    /\ UNCHANGED <<lodN, octLevel, lodOthers>>

GetOctreeLevel ==
    /\ lodN >= 0
    /\ \E level \in -1..LodMaxLevel :
          octLevel' = <<get_octree_level(lodN, level)>>
    /\ UNCHANGED <<lodN, lodLevels, lodOthers>>

\* point counts: the small ones, and those around the streaming limit
LodCounts ==
    (0..LodMaxN)
    \cup {MAX_STREAM_POINTS * Pow(LOD_FACTOR, l) + d : l \in 0..1, d \in 0..1}

LodIdle ==
    /\ lodN = -1
    /\ lodLevels = <<>>
    /\ octLevel = <<>>

LodInit ==
    /\ lodN \in LodCounts
    /\ lodLevels = <<>>
    /\ octLevel = <<>>

LodNext ==
    \/ GenerateLodLevels
    \/ GetOctreeLevel

(***************************************************************************)
(* C4 (as amended): decimation with stride k = 4^level over N points       *)
(* yields the points at original indices 0, k, 2k, ... in original order:  *)
(* all ceil(N/k) of them in generate_lod_levels, and the first             *)
(* min(ceil(N/k), 100000) of them in get_octree_level.                     *)
(***************************************************************************)
\* ceil(n / k): the least m with m * k >= n
CeilDiv(n, k) == CHOOSE m \in 0..n : m * k >= n /\ (m = 0 \/ (m - 1) * k < n)

Least(a, b) == IF a < b THEN a ELSE b

IsStrided(v, k) == \A j \in 0..(v.len - 1) : RowIndex(v, j) = j * k

C4_StrideDecimation ==
    /\ lodLevels # <<>> =>
          \A l \in 1..Len(lodLevels[1].result) :
              LET v == lodLevels[1].result[l]
                  k == Pow(4, l - 1)
              IN  v.len = CeilDiv(lodN, k) /\ IsStrided(v, k)
    /\ (octLevel # <<>> /\ octLevel[1].status = 200) =>
          LET v == octLevel[1].points
              k == Pow(4, octLevel[1].level)
          IN  /\ v.len = Least(CeilDiv(lodN, k), 100000)
              /\ octLevel[1].point_count = v.len
              /\ IsStrided(v, k)

\* a full LOD list over a count that no stride divides, and a response that
\* the streaming limit has cut
C4_Witness ==
    /\ lodLevels # <<>> /\ Len(lodLevels[1].result) = LodMaxLevel + 1
    /\ lodN % 4 # 0 /\ lodN > 16
    /\ octLevel # <<>> /\ octLevel[1].status = 200 /\ octLevel[1].level = 1
    /\ octLevel[1].point_count < CeilDiv(lodN, 4)

\* C4 as first stated: get_octree_level too returns exactly ceil(N/k) points
C4_Original ==
    /\ lodLevels # <<>> =>
          \A l \in 1..Len(lodLevels[1].result) :
              lodLevels[1].result[l].len = CeilDiv(lodN, Pow(4, l - 1))
    /\ (octLevel # <<>> /\ octLevel[1].status = 200) =>
          octLevel[1].points.len = CeilDiv(lodN, Pow(4, octLevel[1].level))

(***************************************************************************)
(* LidarProcessor.calculate_building_heights  (lidar_advanced.py:313-347)  *)
(* Grids of this group hold plain numbers.                                 *)
(***************************************************************************)
BUILDING_THRESHOLD == 2

MIN_BUILDING_CELLS == 10

BldRows == 3

BldCols == 4

\* in the wide grid, at most this many cells lie outside the footprint
BldMaxHoles == 2

\* ground levels and resolutions of the input pairs
BldGrounds == {0, 2}

BldResolutions == {1, 2}

\* surface elevation over a roof cell: 5 or 7, in a checkerboard
Roof(c) == 5 + 2 * ((c[1] + c[2]) % 2)

\* A plausible slip: the difference is taken in place, dsm['grid'] -= ...
height_model_in_place(dtm_, dsm_) ==
    LET h == [c \in DOMAIN dsm_.grid |-> dsm_.grid[c] - dtm_.grid[c]]
    IN  [h |-> h, dtm |-> dtm_, dsm |-> [dsm_ EXCEPT !.grid = h]]

\* height_model = dsm['grid'] - dtm['grid']: a new array; the operands stay
height_model(dtm_, dsm_) ==
    [h |-> [c \in DOMAIN dsm_.grid |-> dsm_.grid[c] - dtm_.grid[c]],
     dtm |-> dtm_, dsm |-> dsm_]

\* A plausible slip: cells that touch at a corner count as connected.
AdjacentOrDiagonal(c, d) ==
    /\ c # d
    /\ c[1] - d[1] \in -1..1
    /\ c[2] - d[2] \in -1..1

\* cells that share an edge (the default structure of scipy.ndimage.label)
Adjacent(c, d) ==
    \/ c[1] = d[1] /\ (c[2] - d[2] = 1 \/ d[2] - c[2] = 1)
    \/ c[2] = d[2] /\ (c[1] - d[1] = 1 \/ d[1] - c[1] = 1)

\* the connected component of the mask that holds the cells S
RECURSIVE Grow(_, _)
Grow(mask, S) ==
    LET more == {c \in mask \ S : \E d \in S : Adjacent(c, d)}
    IN  IF more = {} THEN S ELSE Grow(mask, S \cup more)

\* the first cell of S in raster-scan order (row by row)
FirstCell(S) ==
    CHOOSE c \in S : \A d \in S : c[1] < d[1] \/ (c[1] = d[1] /\ c[2] <= d[2])

\* label(building_mask): the components, numbered in raster-scan order of
\* their first cell; component k carries label k
RECURSIVE label(_)
label(mask) ==
    IF mask = {} THEN <<>>
    ELSE LET comp == Grow(mask, {FirstCell(mask)})
         IN  <<comp>> \o label(mask \ comp)

\* A plausible slip: no component is discarded.
TooSmallNever(n) == FALSE

\* if mask.sum() < 10: continue
TooSmall(n) == n < MIN_BUILDING_CELLS

\* lines 331-345: the dict appended for component `comp` with label id
Building(id, comp, h, dtm_) ==
    LET n == Cardinality(comp)
        hs == {h[c] : c \in comp}
        res == dtm_.resolution
    IN  [id |-> id,
         area_cells |-> n,
         area_m2 |-> n * res * res,
         height_min |-> SetMin(hs),
         height_max |-> SetMax(hs),
         height_mean |-> <<SumOver(h, comp), n>>,
         center_x |-> <<SumOver([c \in comp |-> c[2]], comp) * res
                          + dtm_.bounds[1] * n, n>>,
         center_y |-> <<SumOver([c \in comp |-> c[1]], comp) * res
                          + dtm_.bounds[3] * n, n>>]

RECURSIVE BuildingLoop(_, _, _, _)
BuildingLoop(comps, id, h, dtm_) ==
    IF id > Len(comps) THEN <<>>
    ELSE (IF TooSmall(Cardinality(comps[id])) THEN <<>>
          ELSE <<Building(id, comps[id], h, dtm_)>>)
         \o BuildingLoop(comps, id + 1, h, dtm_)

\* calculate_building_heights(dtm, dsm): the list returned, and the two
\* dicts as the call leaves them
calculate_building_heights(dtm_, dsm_) ==
    LET hm == height_model(dtm_, dsm_)
        building_mask == {c \in DOMAIN hm.h : hm.h[c] > BUILDING_THRESHOLD}
    IN  [buildings |-> BuildingLoop(label(building_mask), 1, hm.h, hm.dtm),
         dtm |-> hm.dtm, dsm |-> hm.dsm]

\* a caller segments the pair it holds (again)
CalculateBuildingHeights ==
    /\ bDtm.resolution > 0
    /\ Len(bCalls) < 2
    /\ LET r == calculate_building_heights(bDtm, bDsm)
       IN  /\ bCalls' = Append(bCalls, [dtm |-> bDtm, dsm |-> bDsm,
                                        buildings |-> r.buildings])
           /\ bDtm' = r.dtm
           /\ bDsm' = r.dsm
    /\ UNCHANGED bldOthers

GridDict(ny, nx, res, g) ==
    [grid |-> g, resolution |-> res,
     bounds |-> <<10, 10 + (nx - 1) * res, 20, 20 + (ny - 1) * res>>,
     shape |-> <<ny, nx>>]

\* the footprints tried: every one in the square grid, the nearly full ones
\* in the wide grid
Footprints(ny, nx) ==
    {F \in SUBSET Cells(ny, nx) :
        nx = BldRows \/ Cardinality(Cells(ny, nx) \ F) <= BldMaxHoles}

BldIdle ==
    /\ bDtm = [grid |-> <<>>, resolution |-> 0, bounds |-> <<0, 0, 0, 0>>,
               shape |-> <<0, 0>>]
    /\ bDsm = bDtm
    /\ bCalls = <<>>

\* a pair of grids of one shape, resolution and origin: flat ground, and a
\* surface that rises to Roof over the footprint
BldInit ==
    /\ \E nx \in {BldRows, BldCols}, res \in BldResolutions,
          ground \in BldGrounds :
          \E F \in Footprints(BldRows, nx) :
              /\ bDtm = GridDict(BldRows, nx, res,
                                 [c \in Cells(BldRows, nx) |-> ground])
              /\ bDsm = GridDict(BldRows, nx, res,
                                 [c \in Cells(BldRows, nx) |->
                                     IF c \in F THEN Roof(c) ELSE ground])
    /\ bCalls = <<>>

BldNext == CalculateBuildingHeights

(***************************************************************************)
(* C5: building segmentation is idempotent: two calls on the same DTM and  *)
(* DSM return identical candidate lists, and a call leaves the DTM and the *)
(* DSM it was given as they were.                                          *)
(***************************************************************************)
C5_SegmentationIdempotent ==
    /\ \A k \in 1..Len(bCalls) :
          bDtm = bCalls[k].dtm /\ bDsm = bCalls[k].dsm
    /\ Len(bCalls) = 2 => bCalls[1].buildings = bCalls[2].buildings

\* two calls that found a building standing on ground above zero
C5_Witness ==
    /\ Len(bCalls) = 2
    /\ bCalls[2].buildings # <<>>
    /\ \A c \in DOMAIN bDtm.grid : bDtm.grid[c] # 0

(***************************************************************************)
(* C9 (as amended): a mask that is a single isolated cell yields no        *)
(* candidate, since a component of fewer than 10 cells is discarded: the   *)
(* 3x3 pair with DTM zero and DSM 5 at the centre gives the empty list.    *)
(* A mask that is one component of at least 10 cells yields exactly one    *)
(* candidate, with cell_count its size, height_max its largest height and  *)
(* area = cell_count x resolution^2.                                       *)
(***************************************************************************)
AboveThreshold(k) ==
    {c \in DOMAIN bCalls[k].dsm.grid :
        bCalls[k].dsm.grid[c] - bCalls[k].dtm.grid[c] > 2}

IsScenario(k) ==
    /\ bCalls[k].dtm.shape = <<3, 3>>
    /\ bCalls[k].dtm.resolution = 1
    /\ \A c \in DOMAIN bCalls[k].dtm.grid : bCalls[k].dtm.grid[c] = 0
    /\ \A c \in DOMAIN bCalls[k].dsm.grid :
          bCalls[k].dsm.grid[c] = IF c = <<1, 1>> THEN 5 ELSE 0

IsOneComponent(S) == S # {} /\ Grow(S, {FirstCell(S)}) = S

C9_SingleCellDiscarded ==
    \A k \in 1..Len(bCalls) :
        LET S == AboveThreshold(k)
            out == bCalls[k].buildings
            res == bCalls[k].dtm.resolution
        IN  /\ Cardinality(S) = 1 => out = <<>>
            /\ (IsOneComponent(S) /\ Cardinality(S) >= 10) =>
                  /\ Len(out) = 1
                  /\ out[1].area_cells = Cardinality(S)
                  /\ out[1].area_m2 = Cardinality(S) * res * res
                  /\ out[1].height_max
                        = SetMax({bCalls[k].dsm.grid[c] - bCalls[k].dtm.grid[c]
                                     : c \in S})

\* the 3x3 scenario has been segmented
C9_Witness ==
    /\ \E k \in 1..Len(bCalls) : IsScenario(k)
    /\ bCalls[1].buildings = <<>>

\* C9 as first stated: the scenario yields exactly one candidate
C9_Original ==
    \A k \in 1..Len(bCalls) :
        IsScenario(k) =>
            /\ Len(bCalls[k].buildings) = 1
            /\ bCalls[k].buildings[1].area_cells = 1
            /\ bCalls[k].buildings[1].height_max = 5
            /\ bCalls[k].buildings[1].area_m2 = 1

(***************************************************************************)
(* Segmentation of a long strip: room for two buildings of ten cells       *)
(***************************************************************************)
BldStrip == Cells(2, 11)

\* surface height above ground outside the footprint: none, or exactly the
\* threshold
BldLowHeights == {0, BUILDING_THRESHOLD}

\* the sets of at most BldMaxHoles cells of the strip
BldStripHoles ==
    {{hs[i] : i \in 1..BldMaxHoles} \cap BldStrip :
        hs \in [1..BldMaxHoles -> BldStrip \cup {<<-1, -1>>}]}

\* flat ground, Roof over the footprint, ground + low elsewhere; at most
\* BldMaxHoles cells lie outside the footprint
BldStripInit ==
    /\ \E res \in BldResolutions, ground \in BldGrounds, low \in BldLowHeights :
          \E F \in {BldStrip \ H : H \in BldStripHoles} :
              /\ bDtm = GridDict(2, 11, res, [c \in BldStrip |-> ground])
              /\ bDsm = GridDict(2, 11, res,
                                 [c \in BldStrip |->
                                     IF c \in F THEN Roof(c) ELSE ground + low])
    /\ bCalls = <<>>

(***************************************************************************)
(* C21: the building candidates are exactly the 4-connected components of  *)
(* the mask DSM - DTM > threshold that have at least the minimum number of *)
(* cells: cells that touch only at a corner are never merged, the          *)
(* candidates stand for pairwise disjoint cell sets, each candidate's area *)
(* is cell_count x resolution^2 and its height_min exceeds the threshold.  *)
(***************************************************************************)
SharesEdge(c, d) ==
    (IF c[1] > d[1] THEN c[1] - d[1] ELSE d[1] - c[1])
    + (IF c[2] > d[2] THEN c[2] - d[2] ELSE d[2] - c[2]) = 1

\* the cells of S joined to c by a chain of edge-sharing cells of S
RECURSIVE EdgeComponent(_, _, _)
EdgeComponent(S, seen, frontier) ==
    IF frontier = {} THEN seen
    ELSE LET next == {d \in S \ seen : \E e \in frontier : SharesEdge(d, e)}
         IN  EdgeComponent(S, seen \cup next, next)

EdgeComponents(S) == {EdgeComponent(S, {c}, {c}) : c \in S}

\* candidate b reports component K of the call's height model h
Reports(b, K, h, res, bounds) ==
    /\ b.area_cells = Cardinality(K)
    /\ b.area_m2 = Cardinality(K) * res * res
    /\ b.height_min = SetMin({h[c] : c \in K})
    /\ b.height_max = SetMax({h[c] : c \in K})
    /\ b.height_min > BUILDING_THRESHOLD
    /\ b.center_x = <<SumOver([c \in K |-> c[2]], K) * res
                        + bounds[1] * Cardinality(K), Cardinality(K)>>
    /\ b.center_y = <<SumOver([c \in K |-> c[1]], K) * res
                        + bounds[3] * Cardinality(K), Cardinality(K)>>

C21_CandidatesAreComponents ==
    \A k \in 1..Len(bCalls) :
        LET d == bCalls[k].dtm
            h == [c \in DOMAIN d.grid |-> bCalls[k].dsm.grid[c] - d.grid[c]]
            S == {c \in DOMAIN h : h[c] > BUILDING_THRESHOLD}
            big == {K \in EdgeComponents(S) :
                       Cardinality(K) >= MIN_BUILDING_CELLS}
            out == bCalls[k].buildings
        IN  /\ Len(out) = Cardinality(big)
            /\ \A K \in big :
                  Cardinality({i \in 1..Len(out) :
                      Reports(out[i], K, h, d.resolution, d.bounds)}) = 1
            /\ \A i \in 1..Len(out) :
                  \E K \in big : Reports(out[i], K, h, d.resolution, d.bounds)

\* a strip cut in two by an empty column: two candidates of ten cells
C21_Witness ==
    /\ bCalls # <<>>
    /\ Len(bCalls[1].buildings) = 2
    /\ bCalls[1].buildings[1].area_cells = 10
    /\ bCalls[1].buildings[2].area_cells = 10

(***************************************************************************)
(* ViewshedAnalyzer  (simulation_advanced.py:339-421)                      *)
(***************************************************************************)
VsCols == 3

VsRowChoices == {1, 2}

VsElevations == {0, 2, 4}

VsObserverHeights == {-1, 0, 2}

VsTargetHeights == {0, 1}

Abs(a) == IF a < 0 THEN -a ELSE a

\* the `while True` loop of _bresenham_line, from (x, y) with error err
RECURSIVE BresenhamLoop(_, _, _, _, _, _, _, _, _)
BresenhamLoop(x, y, x1, y1, dx, dy, sx, sy, err) ==
    IF x = x1 /\ y = y1 THEN << <<x, y>> >>
    ELSE LET e2 == 2 * err
             stepx == e2 > -dy
             stepy == e2 < dx
             err2 == err - (IF stepx THEN dy ELSE 0) + (IF stepy THEN dx ELSE 0)
         IN  << <<x, y>> >> \o
             BresenhamLoop(IF stepx THEN x + sx ELSE x,
                           IF stepy THEN y + sy ELSE y,
                           x1, y1, dx, dy, sx, sy, err2)

bresenham_line(x0, y0, x1, y1) ==
    LET dx == Abs(x1 - x0)
        dy == Abs(y1 - y0)
        sx == IF x0 < x1 THEN 1 ELSE -1
        sy == IF y0 < y1 THEN 1 ELSE -1
    IN  BresenhamLoop(x0, y0, x1, y1, dx, dy, sx, sy, dx - dy)

\* A plausible slip: the sight line interpolated with the sign reversed.
TerrainBlocksDescending(elev, obs_elevation, target_elevation, point_idx, n) ==
    elev * n > obs_elevation * n - point_idx * (target_elevation - obs_elevation)

\* A plausible slip: terrain that touches the sight line blocks it.
TerrainBlocksOrTouches(elev, obs_elevation, target_elevation, point_idx, n) ==
    elev * n >= obs_elevation * n + point_idx * (target_elevation - obs_elevation)

\* lines 385-390, with fraction = point_idx / n:
\*   dem[r, c] > obs_elevation + fraction * (target_elevation - obs_elevation)
TerrainBlocks(elev, obs_elevation, target_elevation, point_idx, n) ==
    elev * n > obs_elevation * n + point_idx * (target_elevation - obs_elevation)

\* lines 374-392: is_visible for the target (i, j)
is_visible(d, obs, observer_height, target_height, target) ==
    LET line_points == bresenham_line(obs[1], obs[2], target[1], target[2])
        obs_elevation == d.elev[obs] + observer_height
        target_elevation == d.elev[target] + target_height
    IN  \A point_idx \in 1..(Len(line_points) - 2) :
            ~TerrainBlocks(d.elev[line_points[point_idx + 1]], obs_elevation,
                           target_elevation, point_idx, Len(line_points))

\* A plausible slip: the observer's own cell is left at zero.
ObserverCellUnset(c, obs) == FALSE

\* visible = np.zeros_like(dem, dtype=bool); visible[obs_row, obs_col] = True
ObserverCell(c, obs) == c = obs

\* ViewshedAnalyzer.calculate for an observer cell inside the raster
calculate(d, obs, observer_height, target_height) ==
    [c \in DOMAIN d.elev |->
        IF c = obs THEN ObserverCell(c, obs)
        ELSE is_visible(d, obs, observer_height, target_height, c)]

Calculate ==
    /\ dem.rows > 0
    /\ viewshed' = << [observer_pos |-> vsArgs.observer_pos,
                        observer_height |-> vsArgs.observer_height,
                        target_height |-> vsArgs.target_height,
                        visible |-> calculate(dem, vsArgs.observer_pos,
                                              vsArgs.observer_height,
                                              vsArgs.target_height)] >>
    /\ UNCHANGED <<dem, vsArgs, vsOthers>>

VsIdle ==
    /\ dem = [rows |-> 0, cols |-> 0, elev |-> <<>>]
    /\ vsArgs = [observer_pos |-> <<0, 0>>, observer_height |-> 0,
                 target_height |-> 0]
    /\ viewshed = <<>>

VsInit ==
    /\ \E rows \in VsRowChoices, cols \in 1..VsCols :
          \E elev \in [Cells(rows, cols) -> VsElevations] :
              dem = [rows |-> rows, cols |-> cols, elev |-> elev]
    /\ vsArgs \in [observer_pos : DOMAIN dem.elev,
                    observer_height : VsObserverHeights,
                    target_height : VsTargetHeights]
    /\ viewshed = <<>>

VsNext == Calculate

(***************************************************************************)
(* C6: for every raster, observer cell in it, observer_height and          *)
(* target_height, the viewshed marks the observer cell visible.            *)
(***************************************************************************)
C6_ObserverVisible ==
    viewshed # <<>> => viewshed[1].visible[viewshed[1].observer_pos]

\* a viewshed from below ground level in which some other cell is hidden
C6_Witness ==
    /\ viewshed # <<>>
    /\ viewshed[1].observer_height < 0
    /\ viewshed[1].visible[viewshed[1].observer_pos]
    /\ \E c \in DOMAIN dem.elev : ~viewshed[1].visible[c]

(***************************************************************************)
(* C7: on a raster of constant elevation, with observer_height >= 0 and    *)
(* target_height >= 0, every cell is visible.                              *)
(***************************************************************************)
IsFlat == \A c, e \in DOMAIN dem.elev : dem.elev[c] = dem.elev[e]

C7_FlatAllVisible ==
    (/\ viewshed # <<>>
     /\ IsFlat
     /\ viewshed[1].observer_height >= 0
     /\ viewshed[1].target_height >= 0)
    => \A c \in DOMAIN dem.elev : viewshed[1].visible[c]

\* a flat raster with lines of three cells, seen from ground level
C7_Witness ==
    /\ viewshed # <<>>
    /\ IsFlat
    /\ dem.rows = 2 /\ dem.cols = 3
    /\ viewshed[1].observer_height = 0
    /\ viewshed[1].target_height = 0
    /\ \A c \in DOMAIN dem.elev : viewshed[1].visible[c]

(***************************************************************************)
(* C8: a target other than the observer is visible if and only if no cell  *)
(* strictly between them on the traced line is higher than the sight line  *)
(* there, the sight line running linearly from observer elevation +        *)
(* observer_height at the observer cell to target elevation +              *)
(* target_height at the target cell; a target next to the observer is      *)
(* always visible.                                                         *)
(***************************************************************************)
\* the line through the two end points, at step k of n steps, lies below elev
AboveSightLine(elev, from, to, k, n) == elev * n > from * n + k * (to - from)

SightLineClear(target) ==
    LET obs == viewshed[1].observer_pos
        line == bresenham_line(obs[1], obs[2], target[1], target[2])
        n == Len(line) - 1
        from == dem.elev[obs] + viewshed[1].observer_height
        to == dem.elev[target] + viewshed[1].target_height
    IN  \A k \in 1..(n - 1) :
            ~AboveSightLine(dem.elev[line[k + 1]], from, to, k, n)

C8_VisibleIffSightLineClear ==
    viewshed # <<>> =>
        \A c \in DOMAIN dem.elev \ {viewshed[1].observer_pos} :
            viewshed[1].visible[c] <=> SightLineClear(c)

(***************************************************************************)
(* C28: viewshed visibility is monotone in the heights: for a fixed raster *)
(* and observer cell, every cell visible with observer_height h and        *)
(* target_height t is also visible with any observer_height h' >= h and    *)
(* any target_height t' >= t.                                              *)
(***************************************************************************)
\* the viewshed of the same raster and observer with other heights
Recalculated(h, t) == calculate(dem, viewshed[1].observer_pos, h, t)

C28_MonotoneInHeights ==
    viewshed # <<>> =>
        \A h \in VsObserverHeights, t \in VsTargetHeights :
            (h >= viewshed[1].observer_height /\ t >= viewshed[1].target_height)
            => \A c \in DOMAIN dem.elev :
                  viewshed[1].visible[c] => Recalculated(h, t)[c]

\* a viewshed with a cell seen over another one and a hidden cell that
\* comes into view when both heights are raised
C28_Witness ==
    /\ viewshed # <<>>
    /\ viewshed[1].observer_height = 0
    /\ viewshed[1].target_height = 0
    /\ \E c \in DOMAIN dem.elev :
          /\ Abs(c[2] - viewshed[1].observer_pos[2]) = 2
          /\ viewshed[1].visible[c]
    /\ \E c \in DOMAIN dem.elev :
          /\ ~viewshed[1].visible[c]
          /\ Recalculated(2, 1)[c]

(***************************************************************************)
(* Random sampling: load_points and adaptive_stream (lidar - Copie.py),    *)
(* get_lidar_sample (lidar.py)                                             *)
(***************************************************************************)
SampleMaxN == 4

MIN_STREAM_SAMPLE == 1000

STREAM_DISTANCE == 500

SAMPLE_LIMIT == 50000

Distances == {-500, 0, 250, 1000, 2000}

MaxPointsChoices == {-1, 0, 1, 2, 3, 6}

SampleSizes == {-1, 0, 1, 2, 3, 6, 10000, 60000}

Min2(a, b) == IF a < b THEN a ELSE b

Max2(a, b) == IF a > b THEN a ELSE b

IsInjective(s) == \A i, j \in 1..Len(s) : s[i] = s[j] => i = j

Ok(indices) == [kind |-> "ok", status |-> 200, indices |-> indices]

Failure(kind, status) == [kind |-> kind, status |-> status, indices |-> <<>>]

\* np.random.choice(n, k, replace=False): ValueError for k < 0 or k > n,
\* else any k distinct indices of 0..n-1 in any order
np_random_choice(n, k) ==
    IF k < 0 \/ k > n
    THEN {Failure("ValueError", 500)}
    ELSE {Ok(idx) : idx \in {s \in [1..k -> 0..(n - 1)] : IsInjective(s)}}

\* pts as read from the file: every row, in file order
AllPoints(n) == [i \in 1..n |-> i - 1]

\* load_points(path, max_points); 0 stands for None as well (both falsy)
load_points(n, max_points) ==
    IF max_points # 0 /\ n > max_points
    THEN np_random_choice(n, max_points)
    ELSE {Ok(AllPoints(n))}

\* int(len(pts) * min(1, 500 / distance)), distance # 0
ScaledCount(n, distance) ==
    IF distance > 0 /\ STREAM_DISTANCE >= distance THEN n
    ELSE TruncDiv(n * STREAM_DISTANCE, distance)

\* the sample size adaptive_stream asks np.random.choice for
StreamSample(n, distance) == Max2(MIN_STREAM_SAMPLE, ScaledCount(n, distance))

\* adaptive_stream: no exception is caught, the framework answers 500
adaptive_stream(n, distance) ==
    IF distance = 0 THEN {Failure("ZeroDivisionError", 500)}
    ELSE np_random_choice(n, StreamSample(n, distance))

\* get_lidar_sample: the clamp of line 192, then the draw; every exception
\* of the try block becomes HTTPException(500)
ClampedSize(n, sample_size) == Min2(Min2(sample_size, SAMPLE_LIMIT), n)

get_lidar_sample(found, n, sample_size) ==
    IF ~found THEN {Failure("HTTPException", 404)}
    ELSE {IF r.kind = "ok" THEN r ELSE Failure("HTTPException", 500) :
             r \in np_random_choice(n, ClampedSize(n, sample_size))}

Request(op, requested, outcome) ==
    << [op |-> op, requested |-> requested, outcome |-> outcome] >>

LoadPoints ==
    /\ lasCount > 0
    /\ \E max_points \in MaxPointsChoices :
          \E r \in load_points(lasCount, max_points) :
              sampleCall' = Request("load_points", <<max_points>>, r)
    /\ UNCHANGED <<lasCount, sampleOthers>>

AdaptiveStream ==
    /\ lasCount > 0
    /\ \E distance \in Distances :
          \E r \in adaptive_stream(lasCount, distance) :
              sampleCall' =
                  Request("adaptive_stream",
                          IF distance = 0 THEN <<>>
                          ELSE <<StreamSample(lasCount, distance)>>, r)
    /\ UNCHANGED <<lasCount, sampleOthers>>

GetLidarSample ==
    /\ lasCount > 0
    /\ \E found \in BOOLEAN, sample_size \in SampleSizes :
          \E r \in get_lidar_sample(found, lasCount, sample_size) :
              sampleCall' = Request("get_lidar_sample", <<sample_size>>, r)
    /\ UNCHANGED <<lasCount, sampleOthers>>

SampleIdle ==
    /\ lasCount = 0
    /\ sampleCall = <<>>

SampleInit ==
    /\ lasCount \in 1..SampleMaxN
    /\ sampleCall = <<>>

SampleNext == LoadPoints \/ AdaptiveStream \/ GetLidarSample

(***************************************************************************)
(* C10: a sampling request for more points than the file holds ends in an  *)
(* invalid-sample-size failure, and every successful sample has exactly    *)
(* the requested number of points with no index repeated, for load_points, *)
(* adaptive_stream and get_lidar_sample on any file of one point or more.  *)
(***************************************************************************)
Oversampled(call) ==
    call.requested # <<>> /\ call.requested[1] > lasCount

C10_OversamplingTypedFailure ==
    \A i \in 1..Len(sampleCall) :
        LET call == sampleCall[i]
        IN  /\ Oversampled(call) =>
                call.outcome.kind = "InvalidSampleSizeError"
            /\ call.outcome.kind = "ok" /\ call.requested # <<>> =>
                /\ Len(call.outcome.indices) = call.requested[1]
                /\ IsInjective(call.outcome.indices)

(***************************************************************************)
(* Repeated sampling: load_points called again on the same file            *)
(* (lidar - Copie.py:36-44).  The function has no seed argument; the draw  *)
(* comes from the generator np.random shares process-wide.                 *)
(***************************************************************************)
ReloadMaxN == 3

ReloadMaxPoints == {0, 1, 2}

\* the log keeps the two most recent calls
LastTwo(s) == IF Len(s) > 2 THEN SubSeq(s, Len(s) - 1, Len(s)) ELSE s

LoadPointsAgain ==
    /\ reloadCount > 0
    /\ \E max_points \in ReloadMaxPoints :
          \E r \in load_points(reloadCount, max_points) :
              loads' = LastTwo(Append(loads, [max_points |-> max_points,
                                              outcome |-> r]))
    /\ UNCHANGED <<reloadCount, reloadOthers>>

ReloadIdle ==
    /\ reloadCount = 0
    /\ loads = <<>>

ReloadInit ==
    /\ reloadCount \in 1..ReloadMaxN
    /\ loads = <<>>

ReloadNext == LoadPointsAgain

(***************************************************************************)
(* C11: two calls of a sampling operation on the same point set with the   *)
(* same sample size (and the same seed: the operation takes none) return   *)
(* the identical sequence of points.                                       *)
(***************************************************************************)
C11_SameRequestSameSample ==
    (Len(loads) = 2 /\ loads[1].max_points = loads[2].max_points)
    => loads[1].outcome = loads[2].outcome

(***************************************************************************)
(* lidar - Copie.py generate_tiles, write by write  (lines 69-88).  The    *)
(* tile files are written one after the other into the live directory;    *)
(* open() and json.dump() can raise OSError (disk full, permissions), and  *)
(* nothing catches it or undoes the writes already made.                   *)
(***************************************************************************)
PubMaxPts == 3

NoDir == [exists |-> FALSE, files |-> <<>>]

\* the keys of the dict `tiles` in insertion order: first appearance in pts
RECURSIVE KeyOrder(_, _, _, _, _)
KeyOrder(pts, i, min_x, min_y, acc) ==
    IF i > Len(pts) THEN acc
    ELSE LET key == compute_tile_index(pts[i][1], pts[i][2], min_x, min_y)
         IN  KeyOrder(pts, i + 1, min_x, min_y,
                      IF \E k \in 1..Len(acc) : acc[k] = key THEN acc
                      ELSE Append(acc, key))

PubBuckets ==
    CopieBuckets(pubPoints, 1, SetMin(Coord(pubPoints, 1)),
                 SetMin(Coord(pubPoints, 2)), <<>>)

\* a file of the directory: written whole, or cut short by a failed dump
TileFile(rows) == [complete |-> TRUE, rows |-> rows]

TruncatedFile == [complete |-> FALSE, rows |-> <<>>]

WithFile(dir, key, file) ==
    [dir EXCEPT !.files = [k \in DOMAIN dir.files \cup {key} |->
                              IF k = key THEN file ELSE dir.files[k]]]

\* lines 71-82: read, bucket, os.makedirs; pts.min() of no points raises
CopieTilesBegin ==
    /\ pubPc = "ready"
    /\ dirBefore' = tileDir
    /\ IF pubPoints = <<>>
       THEN /\ pubPc' = "failed"
            /\ UNCHANGED <<pubQueue, tileDir>>
       ELSE /\ pubPc' = "writing"
            /\ pubQueue' = KeyOrder(pubPoints, 1, SetMin(Coord(pubPoints, 1)),
                                    SetMin(Coord(pubPoints, 2)), <<>>)
            /\ tileDir' = [tileDir EXCEPT !.exists = TRUE]
    /\ UNCHANGED <<pubPoints, pubOthers>>

\* lines 84-86, one turn: the file is written
CopieTilesWrite ==
    /\ pubPc = "writing"
    /\ pubQueue # <<>>
    /\ tileDir' = WithFile(tileDir, Head(pubQueue),
                           TileFile(PubBuckets[Head(pubQueue)]))
    /\ pubQueue' = Tail(pubQueue)
    /\ UNCHANGED <<pubPoints, pubPc, dirBefore, pubOthers>>

\* lines 85-86, one turn: open() raises, or json.dump() raises after open()
\* has created or truncated the file
CopieTilesWriteFails ==
    /\ pubPc = "writing"
    /\ pubQueue # <<>>
    /\ \/ UNCHANGED tileDir
       \/ tileDir' = WithFile(tileDir, Head(pubQueue), TruncatedFile)
    /\ pubPc' = "failed"
    /\ UNCHANGED <<pubPoints, pubQueue, dirBefore, pubOthers>>

\* line 88
CopieTilesReturn ==
    /\ pubPc = "writing"
    /\ pubQueue = <<>>
    /\ pubPc' = "done"
    /\ UNCHANGED <<pubPoints, pubQueue, tileDir, dirBefore, pubOthers>>

PubIdle ==
    /\ pubPoints = <<>>
    /\ pubPc = "idle"
    /\ pubQueue = <<>>
    /\ tileDir = NoDir
    /\ dirBefore = NoDir

PubInit ==
    /\ pubPoints \in SeqsUpTo(TilePool, PubMaxPts)
    /\ pubPc = "ready"
    /\ pubQueue = <<>>
    /\ tileDir = NoDir
    /\ dirBefore = NoDir

PubNext ==
    \/ CopieTilesBegin
    \/ CopieTilesWrite
    \/ CopieTilesWriteFails
    \/ CopieTilesReturn

(***************************************************************************)
(* C15: a build that fails part-way publishes nothing: when tile           *)
(* generation has failed, the tile directory is exactly what it was        *)
(* before the call.                                                        *)
(***************************************************************************)
C15_FailedBuildPublishesNothing ==
    pubPc = "failed" => tileDir = dirBefore

(***************************************************************************)
(* LidarProcessor.estimate_streaming_budget  (lidar_advanced.py:493-518),  *)
(* one turn of its while loop at a time.  points_per_frame comes from the  *)
(* query string of GET /files/{id}/streaming-budget unchecked.             *)
(***************************************************************************)
BudgetMaxTotal == 20

\* turns of the loop followed; a loop still running then runs for ever
BudgetMaxLevel == 5

BudgetFrames == {-1, 0, 1, 2, 5, 20}

\* lines 495-500
BudgetStart ==
    /\ bgPc = "start"
    /\ bgCurrent' = bgTotal
    /\ bgLevel' = 0
    /\ bgInfo' = <<>>
    /\ bgPc' = "loop"
    /\ UNCHANGED <<bgTotal, bgFrame, budgetOthers>>

\* lines 502-509: one turn of `while current_points > points_per_frame`
BudgetTurn ==
    /\ bgPc = "loop"
    /\ bgCurrent > bgFrame
    /\ bgLevel < BudgetMaxLevel
    /\ bgInfo' = Append(bgInfo, [level |-> bgLevel,
                                 point_count |-> bgCurrent,
                                 stride |-> Pow(4, bgLevel)])
    /\ bgCurrent' = bgCurrent \div 4
    /\ bgLevel' = bgLevel + 1
    /\ UNCHANGED <<bgTotal, bgFrame, bgPc, budgetOthers>>

\* lines 511-518: the loop is left, lod_levels_needed = len(lod_levels)
BudgetReturn ==
    /\ bgPc = "loop"
    /\ ~(bgCurrent > bgFrame)
    /\ bgPc' = "done"
    /\ UNCHANGED <<bgTotal, bgFrame, bgCurrent, bgLevel, bgInfo, budgetOthers>>

BudgetIdle ==
    /\ bgTotal = 0
    /\ bgFrame = 0
    /\ bgCurrent = 0
    /\ bgLevel = 0
    /\ bgInfo = <<>>
    /\ bgPc = "idle"

BudgetInit ==
    /\ bgTotal \in 0..BudgetMaxTotal
    /\ bgFrame \in BudgetFrames
    /\ bgCurrent = 0
    /\ bgLevel = 0
    /\ bgInfo = <<>>
    /\ bgPc = "start"

BudgetNext ==
    \/ BudgetStart
    \/ BudgetTurn
    \/ BudgetReturn

(***************************************************************************)
(* C25: estimate_streaming_budget terminates for every total point count   *)
(* >= 0 and every integer points_per_frame, 0 and negative values          *)
(* included, and the number of LOD levels it reports is the smallest L     *)
(* with floor(total_points / 4^L) <= points_per_frame.                     *)
(***************************************************************************)
FitsFrame(L) == bgTotal \div Pow(4, L) <= bgFrame

BrMaxCoord == 3

\* turns of the loop followed; a line between two cells of the square is
\* shorter
BrMaxCells == 8

BrDx == Abs(brArgs.x1 - brArgs.x0)

BrDy == Abs(brArgs.y1 - brArgs.y0)

BrSx == IF brArgs.x0 < brArgs.x1 THEN 1 ELSE -1

BrSy == IF brArgs.y0 < brArgs.y1 THEN 1 ELSE -1

\* A plausible slip: `elif e2 < dx`, one coordinate per turn.
StepYElse(stepx, e2, dx) == ~stepx /\ e2 < dx

\* line 416: `if e2 < dx`, whether or not x moved
StepY(stepx, e2, dx) == e2 < dx

\* lines 401-408
BresenhamStart ==
    /\ brPc = "start"
    /\ brPts' = <<>>
    /\ brErr' = BrDx - BrDy
    /\ brX' = brArgs.x0
    /\ brY' = brArgs.y0
    /\ brPc' = "loop"
    /\ UNCHANGED <<brArgs, brOthers>>

\* lines 409-418: a turn that does not end the loop
BresenhamTurn ==
    /\ brPc = "loop"
    /\ ~(brX = brArgs.x1 /\ brY = brArgs.y1)
    /\ Len(brPts) < BrMaxCells
    /\ LET e2 == 2 * brErr
           stepx == e2 > -BrDy
           stepy == StepY(stepx, e2, BrDx)
       IN  /\ brPts' = Append(brPts, <<brX, brY>>)
           /\ brErr' = brErr - (IF stepx THEN BrDy ELSE 0)
                             + (IF stepy THEN BrDx ELSE 0)
           /\ brX' = IF stepx THEN brX + BrSx ELSE brX
           /\ brY' = IF stepy THEN brY + BrSy ELSE brY
    /\ UNCHANGED <<brArgs, brPc, brOthers>>

\* lines 410-412 and 420: the last cell is appended, break, return points
BresenhamBreak ==
    /\ brPc = "loop"
    /\ brX = brArgs.x1 /\ brY = brArgs.y1
    /\ brPts' = Append(brPts, <<brX, brY>>)
    /\ brPc' = "done"
    /\ UNCHANGED <<brArgs, brX, brY, brErr, brOthers>>

BrIdle ==
    /\ brArgs = [x0 |-> 0, y0 |-> 0, x1 |-> 0, y1 |-> 0]
    /\ brX = 0
    /\ brY = 0
    /\ brErr = 0
    /\ brPts = <<>>
    /\ brPc = "idle"

BrInit ==
    /\ brArgs \in [x0 : 0..BrMaxCoord, y0 : 0..BrMaxCoord,
                   x1 : 0..BrMaxCoord, y1 : 0..BrMaxCoord]
    /\ brX = 0
    /\ brY = 0
    /\ brErr = 0
    /\ brPts = <<>>
    /\ brPc = "start"

BrNext ==
    \/ BresenhamStart
    \/ BresenhamTurn
    \/ BresenhamBreak

(***************************************************************************)
(* C27: _bresenham_line terminates and returns a list that starts at       *)
(* (x0, y0), ends at (x1, y1), has exactly max(|x1-x0|, |y1-y0|) + 1       *)
(* cells, moves by at most one step in each coordinate between consecutive *)
(* cells, and stays inside the bounding rectangle of the two endpoints.    *)
(***************************************************************************)
Between(a, lo, hi) ==
    /\ (IF lo < hi THEN lo ELSE hi) <= a
    /\ a <= (IF lo < hi THEN hi ELSE lo)

BrLineAsClaimed ==
    /\ brPts[1] = <<brArgs.x0, brArgs.y0>>
    /\ brPts[Len(brPts)] = <<brArgs.x1, brArgs.y1>>
    /\ Len(brPts) = (IF BrDx > BrDy THEN BrDx ELSE BrDy) + 1
    /\ \A k \in 1..(Len(brPts) - 1) :
          /\ Abs(brPts[k + 1][1] - brPts[k][1]) <= 1
          /\ Abs(brPts[k + 1][2] - brPts[k][2]) <= 1
    /\ \A k \in 1..Len(brPts) :
          /\ Between(brPts[k][1], brArgs.x0, brArgs.x1)
          /\ Between(brPts[k][2], brArgs.y0, brArgs.y1)

C27_BresenhamLine ==
    /\ <>(brPc = "done")
    /\ [](brPc = "done" => BrLineAsClaimed)

\* a returned line of four cells that moves on both axes, towards lower x
C27_Witness ==
    /\ brPc = "done"
    /\ Len(brPts) = 4
    /\ brArgs.x1 < brArgs.x0
    /\ BrDy \in {1, 2}
    /\ BrLineAsClaimed

(***************************************************************************)
(* LIDAR file store: upload_lidar_file (lidar.py:18-121),                  *)
(* upload_lidar_advanced (lidar_advanced.py:523-632) and delete_lidar_file *)
(* (lidar.py:315-337).  An `async def` handler runs without interruption   *)
(* from one `await` to the next; an upload awaits once, at file.read().    *)
(***************************************************************************)
StMaxCalls == 3

\* the seconds the clock shows while the requests arrive
StSeconds == {0, 1}

StSlots == {1, 2}

\* client file names, as (stem, extension)
StNames == {<<"x", ".las">>, <<"x", ".txt">>}

\* request bodies: two LAS files, one file that is no LAS file, one LAS
\* file larger than settings.MAX_UPLOAD_SIZE
StContents == {"A", "B", "junk", "huge"}

StRoutes == {"basic", "advanced"}

\* file.filename.endswith(('.las', '.laz'))
HasLasExtension(name) == name[2] \in {".las", ".laz"}

\* f"{timestamp}_{file.filename}" under lidar_dir, timestamp to the second
SafePath(second, name) == <<second, name>>

\* laspy.read(filepath) / LidarProcessor(filepath) returns for a LAS file
Parses(content) == content \in {"A", "B", "huge"}

\* len(content) > settings.MAX_UPLOAD_SIZE, checked by upload_lidar_file only
TooLarge(route, content) == route = "basic" /\ content = "huge"

NoRequest ==
    [pc |-> "idle", route |-> "basic", name |-> <<"", "">>,
     content |-> "", path |-> <<0, <<"", "">>>>]

Response(op, status) == [op |-> op, status |-> status]

\* open(filepath, "wb") followed by f.write(content)
WriteFile(files, path, content) ==
    [p \in DOMAIN files \cup {path} |-> IF p = path THEN content ELSE files[p]]

\* filepath.unlink()
Unlink(files, path) == [p \in DOMAIN files \ {path} |-> files[p]]

\* the clock of datetime.now() passes a second
Tick ==
    /\ stClock + 1 \in StSeconds
    /\ stClock' = stClock + 1
    /\ UNCHANGED <<stFiles, stRecords, stNextId, stReq, stCalls, stResp,
                   stOthers>>

\* lidar.py:29-45 / lidar_advanced.py:542-554: the extension check, mkdir,
\* the timestamped path, up to `await file.read()`
UploadBegin(s) ==
    /\ stReq[s].pc = "idle"
    /\ \A t \in StSlots : t < s => stReq[t].pc # "idle"
    /\ stCalls < StMaxCalls
    /\ stCalls' = stCalls + 1
    /\ \E route \in StRoutes, name \in StNames, content \in StContents :
          IF ~HasLasExtension(name)
          THEN /\ stResp' = Response("upload", 400)
               /\ UNCHANGED stReq
          ELSE /\ stReq' = [stReq EXCEPT ![s] =
                              [pc |-> "reading", route |-> route,
                               name |-> name, content |-> content,
                               path |-> SafePath(stClock, name)]]
               /\ UNCHANGED stResp
    /\ UNCHANGED <<stClock, stFiles, stRecords, stNextId, stOthers>>

\* lidar.py:47-52: HTTPException(400) raised inside the try block, caught by
\* `except Exception` and answered as 500
UploadTooLarge(s) ==
    /\ stReq[s].pc = "reading"
    /\ TooLarge(stReq[s].route, stReq[s].content)
    /\ stReq' = [stReq EXCEPT ![s] = NoRequest]
    /\ stResp' = Response("upload", 500)
    /\ UNCHANGED <<stClock, stFiles, stRecords, stNextId, stCalls, stOthers>>

\* lidar.py:54-55: open() has truncated the file and write() raises
UploadWriteFails(s) ==
    /\ stReq[s].pc = "reading"
    /\ ~TooLarge(stReq[s].route, stReq[s].content)
    /\ stFiles' = WriteFile(stFiles, stReq[s].path, "torn")
    /\ stReq' = [stReq EXCEPT ![s] = NoRequest]
    /\ stResp' = Response("upload", 500)
    /\ UNCHANGED <<stClock, stRecords, stNextId, stCalls, stOthers>>

\* lidar.py:54-58: the file is written and laspy.read(filepath) raises;
\* db.rollback() has nothing to undo
UploadParseFails(s) ==
    /\ stReq[s].pc = "reading"
    /\ ~TooLarge(stReq[s].route, stReq[s].content)
    /\ ~Parses(stReq[s].content)
    /\ stFiles' = WriteFile(stFiles, stReq[s].path, stReq[s].content)
    /\ stReq' = [stReq EXCEPT ![s] = NoRequest]
    /\ stResp' = Response("upload", 500)
    /\ UNCHANGED <<stClock, stRecords, stNextId, stCalls, stOthers>>

\* lidar.py:54-98 and 119-121: written and parsed, db.commit() raises
UploadCommitFails(s) ==
    /\ stReq[s].pc = "reading"
    /\ ~TooLarge(stReq[s].route, stReq[s].content)
    /\ Parses(stReq[s].content)
    /\ stFiles' = WriteFile(stFiles, stReq[s].path, stReq[s].content)
    /\ stReq' = [stReq EXCEPT ![s] = NoRequest]
    /\ stResp' = Response("upload", 500)
    /\ UNCHANGED <<stClock, stRecords, stNextId, stCalls, stOthers>>

\* lidar.py:54-117: written, parsed, the row added and committed
UploadSucceeds(s) ==
    /\ stReq[s].pc = "reading"
    /\ ~TooLarge(stReq[s].route, stReq[s].content)
    /\ Parses(stReq[s].content)
    /\ stFiles' = WriteFile(stFiles, stReq[s].path, stReq[s].content)
    /\ stRecords' = stRecords \cup
                      {[id |-> stNextId, filepath |-> stReq[s].path,
                        points |-> stReq[s].content,
                        processed |-> IF stReq[s].route = "basic" THEN 0 ELSE 1]}
    /\ stNextId' = stNextId + 1
    /\ stReq' = [stReq EXCEPT ![s] = NoRequest]
    /\ stResp' = Response("upload", 200)
    /\ UNCHANGED <<stClock, stCalls, stOthers>>

\* lidar.py:318-321: no row with this id
DeleteNotFound(lidar_id) ==
    /\ stCalls < StMaxCalls
    /\ stCalls' = stCalls + 1
    /\ \A r \in stRecords : r.id # lidar_id
    /\ stResp' = Response("delete", 404)
    /\ UNCHANGED <<stClock, stFiles, stRecords, stNextId, stReq, stOthers>>

\* lidar.py:323-327 and 335-337: filepath.unlink() raises
DeleteUnlinkFails(lidar_id) ==
    /\ stCalls < StMaxCalls
    /\ stCalls' = stCalls + 1
    /\ \E r \in stRecords : r.id = lidar_id /\ r.filepath \in DOMAIN stFiles
    /\ stResp' = Response("delete", 500)
    /\ UNCHANGED <<stClock, stFiles, stRecords, stNextId, stReq, stOthers>>

\* lidar.py:323-331 and 335-337: the file is unlinked (when there is one),
\* db.commit() raises and the row is kept
DeleteCommitFails(lidar_id) ==
    /\ stCalls < StMaxCalls
    /\ stCalls' = stCalls + 1
    /\ \E r \in stRecords :
          /\ r.id = lidar_id
          /\ stFiles' = Unlink(stFiles, r.filepath)
    /\ stResp' = Response("delete", 500)
    /\ UNCHANGED <<stClock, stRecords, stNextId, stReq, stOthers>>

\* lidar.py:323-333
DeleteSucceeds(lidar_id) ==
    /\ stCalls < StMaxCalls
    /\ stCalls' = stCalls + 1
    /\ \E r \in stRecords :
          /\ r.id = lidar_id
          /\ stFiles' = Unlink(stFiles, r.filepath)
          /\ stRecords' = stRecords \ {r}
    /\ stResp' = Response("delete", 200)
    /\ UNCHANGED <<stClock, stNextId, stReq, stOthers>>

StIdle ==
    /\ stClock = 0
    /\ stFiles = <<>>
    /\ stRecords = {}
    /\ stNextId = 0
    /\ stReq = <<>>
    /\ stCalls = 0
    /\ stResp = Response("", 0)

\* an empty LIDAR_DIR and an empty lidar_data table
StInit ==
    /\ stClock = 0
    /\ stFiles = <<>>
    /\ stRecords = {}
    /\ stNextId = 1
    /\ stReq = [s \in StSlots |-> NoRequest]
    /\ stCalls = 0
    /\ stResp = Response("", 0)

StNext ==
    \/ Tick
    \/ \E s \in StSlots : UploadBegin(s)
    \/ \E s \in StSlots : UploadTooLarge(s)
    \/ \E s \in StSlots : UploadWriteFails(s)
    \/ \E s \in StSlots : UploadParseFails(s)
    \/ \E s \in StSlots : UploadCommitFails(s)
    \/ \E s \in StSlots : UploadSucceeds(s)
    \/ \E lidar_id \in 1..StMaxCalls : DeleteNotFound(lidar_id)
    \/ \E lidar_id \in 1..StMaxCalls : DeleteUnlinkFails(lidar_id)
    \/ \E lidar_id \in 1..StMaxCalls : DeleteCommitFails(lidar_id)
    \/ \E lidar_id \in 1..StMaxCalls : DeleteSucceeds(lidar_id)

(***************************************************************************)
(* C29: after any sequence of upload and delete calls, each of which may   *)
(* succeed or fail at any of its steps (file write, LAS parse, database    *)
(* add/commit, file unlink), stored LIDAR files and LidarData records stay *)
(* in one-to-one correspondence: every record's filepath names an existing *)
(* file and every stored file has a record.                                *)
(***************************************************************************)
NoUploadInFlight == \A s \in StSlots : stReq[s].pc = "idle"

C29_FilesMatchRecords ==
    NoUploadInFlight =>
        /\ \A r \in stRecords : r.filepath \in DOMAIN stFiles
        /\ \A p \in DOMAIN stFiles : \E r \in stRecords : r.filepath = p
        /\ \A r, q \in stRecords : r.filepath = q.filepath => r = q

(***************************************************************************)
(* C30: two uploads that interleave or start within the same clock second  *)
(* with the same client filename are stored at distinct file paths:        *)
(* neither upload overwrites the other's file content, and the two         *)
(* resulting LidarData records refer to two different files.               *)
(***************************************************************************)
\* the second and the client file name a record's upload started with
StartedAt(r) == r.filepath[1]

ClientName(r) == r.filepath[2]

C30_UploadsKeptApart ==
    \A r, q \in stRecords :
        (/\ r.id # q.id
         /\ StartedAt(r) = StartedAt(q)
         /\ ClientName(r) = ClientName(q)) =>
            /\ r.filepath # q.filepath
            /\ r.filepath \in DOMAIN stFiles => stFiles[r.filepath] = r.points

(***************************************************************************)
(* Specifications                                                          *)
(***************************************************************************)
OctreeInit ==
    /\ OctInit
    /\ TileIdle /\ RasterIdle /\ LodIdle /\ BldIdle
    /\ VsIdle /\ SampleIdle /\ ReloadIdle /\ PubIdle
    /\ BudgetIdle /\ BrIdle /\ StIdle

SpecOctree == OctreeInit /\ [][OctNext]_vars

TilesInit ==
    /\ TileInit
    /\ OctIdle /\ RasterIdle /\ LodIdle /\ BldIdle
    /\ VsIdle /\ SampleIdle /\ ReloadIdle /\ PubIdle
    /\ BudgetIdle /\ BrIdle /\ StIdle

SpecTiles == TilesInit /\ [][TileNext]_vars

RastersInit ==
    /\ RasterInit
    /\ OctIdle /\ TileIdle /\ LodIdle /\ BldIdle
    /\ VsIdle /\ SampleIdle /\ ReloadIdle /\ PubIdle
    /\ BudgetIdle /\ BrIdle /\ StIdle

SpecRaster == RastersInit /\ [][RasterNext]_vars

LodsInit ==
    /\ LodInit
    /\ OctIdle /\ TileIdle /\ RasterIdle /\ BldIdle
    /\ VsIdle /\ SampleIdle /\ ReloadIdle /\ PubIdle
    /\ BudgetIdle /\ BrIdle /\ StIdle

SpecLod == LodsInit /\ [][LodNext]_vars

BuildingsInit ==
    /\ BldInit
    /\ OctIdle /\ TileIdle /\ RasterIdle /\ LodIdle
    /\ VsIdle /\ SampleIdle /\ ReloadIdle /\ PubIdle
    /\ BudgetIdle /\ BrIdle /\ StIdle

SpecBuildings == BuildingsInit /\ [][BldNext]_vars

ViewshedInit ==
    /\ VsInit
    /\ OctIdle /\ TileIdle /\ RasterIdle /\ LodIdle
    /\ BldIdle /\ SampleIdle /\ ReloadIdle /\ PubIdle
    /\ BudgetIdle /\ BrIdle /\ StIdle

SpecViewshed == ViewshedInit /\ [][VsNext]_vars

SamplingInit ==
    /\ SampleInit
    /\ OctIdle /\ TileIdle /\ RasterIdle /\ LodIdle
    /\ BldIdle /\ VsIdle /\ ReloadIdle /\ PubIdle
    /\ BudgetIdle /\ BrIdle /\ StIdle

SpecSample == SamplingInit /\ [][SampleNext]_vars

ReloadingInit ==
    /\ ReloadInit
    /\ OctIdle /\ TileIdle /\ RasterIdle /\ LodIdle
    /\ BldIdle /\ VsIdle /\ SampleIdle /\ PubIdle
    /\ BudgetIdle /\ BrIdle /\ StIdle

SpecReload == ReloadingInit /\ [][ReloadNext]_vars

PublishingInit ==
    /\ PubInit
    /\ OctIdle /\ TileIdle /\ RasterIdle /\ LodIdle
    /\ BldIdle /\ VsIdle /\ SampleIdle /\ ReloadIdle
    /\ BudgetIdle /\ BrIdle /\ StIdle

SpecPublish == PublishingInit /\ [][PubNext]_vars

BudgetingInit ==
    /\ BudgetInit
    /\ OctIdle /\ TileIdle /\ RasterIdle /\ LodIdle
    /\ BldIdle /\ VsIdle /\ SampleIdle /\ ReloadIdle
    /\ PubIdle /\ BrIdle /\ StIdle

SpecBudget == BudgetingInit /\ [][BudgetNext]_vars

LinesInit ==
    /\ BrInit
    /\ OctIdle /\ TileIdle /\ RasterIdle /\ LodIdle
    /\ BldIdle /\ VsIdle /\ SampleIdle /\ ReloadIdle
    /\ PubIdle /\ BudgetIdle /\ StIdle

SpecLine == LinesInit /\ [][BrNext]_vars

StoresInit ==
    /\ StInit
    /\ OctIdle /\ TileIdle /\ RasterIdle /\ LodIdle
    /\ BldIdle /\ VsIdle /\ SampleIdle /\ ReloadIdle
    /\ PubIdle /\ BudgetIdle /\ BrIdle

SpecStore == StoresInit /\ [][StNext]_vars

StripsInit ==
    /\ BldStripInit
    /\ OctIdle /\ TileIdle /\ RasterIdle /\ LodIdle
    /\ VsIdle /\ SampleIdle /\ ReloadIdle /\ PubIdle
    /\ BudgetIdle /\ BrIdle /\ StIdle

SpecStrips == StripsInit /\ [][BldNext]_vars

BudgetingLiveInit ==
    /\ BudgetInit
    /\ OctIdle /\ TileIdle /\ RasterIdle /\ LodIdle
    /\ BldIdle /\ VsIdle /\ SampleIdle /\ ReloadIdle
    /\ PubIdle /\ BrIdle /\ StIdle

SpecBudgetLive ==
    BudgetingLiveInit /\ [][BudgetNext]_vars /\ WF_vars(BudgetNext)

LinesLiveInit ==
    /\ BrInit
    /\ OctIdle /\ TileIdle /\ RasterIdle /\ LodIdle
    /\ BldIdle /\ VsIdle /\ SampleIdle /\ ReloadIdle
    /\ PubIdle /\ BudgetIdle /\ StIdle

SpecLineLive ==
    LinesLiveInit /\ [][BrNext]_vars /\ WF_vars(BrNext)

====
